---- MODULE Spec2Model ----
(***************************************************************************)
(* Xorcist browser extension: the rule store (chrome.storage.local), the   *)
(* two rule resolvers (background getMergedRules, content-script           *)
(* XorcistReplacer.loadRules) and the XorcistReplacer engine that applies  *)
(* the resolved rules to the page, re-triggered by the MutationObserver    *)
(* and by chrome.storage.onChanged.                                        *)
(***************************************************************************)
EXTENDS Integers, Sequences, FiniteSets, TLC

(***************************************************************************)
(* Bounds of the model.                                                    *)
(***************************************************************************)
MaxUserRules == 2
MaxCommunityRules == 2
MaxNodes == 9
MaxNotifs == 1
MaxRuleWrites == 1
MaxTags == 2
MaxCalls == 2

(***************************************************************************)
(* Sequence helpers.                                                       *)
(***************************************************************************)
Range(s) == { s[i] : i \in 1..Len(s) }

SeqsUpTo(S, n) == UNION { [1..k -> S] : k \in 0..n }

(***************************************************************************)
(* Rules and tags as the store holds them.  A falsy string field of the    *)
(* source (absent, null or '') is the empty string; hasTags tells an       *)
(* absent tags field from an empty array.                                  *)
(***************************************************************************)
BlankRule ==
  [ id |-> "", source |-> "user", enabled |-> TRUE, hasTags |-> FALSE, tags |-> <<>>,
    hostname |-> "", selector |-> "", contentPattern |-> "", action |-> "hide",
    replacement |-> "" ]

UserId(i) == <<"u1", "u2", "u3", "u4">>[i]
CommunityId(i) == <<"c1", "c2", "c3", "c4">>[i]

\* A tag of the registry; a tag that is given no name of its own is named by its id.
NamedTag(id, name, on) == [ id |-> id, enabled |-> on, name |-> name ]

Tag(id, on) == NamedTag(id, id, on)

\* A resolver that would put the community rules first.
GetMergedRulesCommunityFirst(stored) ==
  LET disabled == Range(stored.disabledRuleIds)
      disabledTagIds == { t.id : t \in { u \in Range(stored.tags) : ~u.enabled } }
      isRuleEnabled(rule) ==
        IF rule.id \in disabled THEN FALSE
        ELSE IF rule.enabled = FALSE THEN FALSE
        ELSE IF rule.hasTags /\ Len(rule.tags) > 0
                /\ (\E k \in 1..Len(rule.tags) : rule.tags[k] \in disabledTagIds)
             THEN FALSE
        ELSE TRUE
  IN  SelectSeq(stored.communityRules, isRuleEnabled)
        \o SelectSeq(stored.userRules, isRuleEnabled)

(***************************************************************************)
(* background.js getMergedRules: user rules first, then community rules,   *)
(* each filtered by isRuleEnabled.                                         *)
(***************************************************************************)
GetMergedRules(stored) ==
  LET disabled == Range(stored.disabledRuleIds)
      disabledTagIds == { t.id : t \in { u \in Range(stored.tags) : ~u.enabled } }
      isRuleEnabled(rule) ==
        IF rule.id \in disabled THEN FALSE
        ELSE IF rule.enabled = FALSE THEN FALSE
        ELSE IF rule.hasTags /\ Len(rule.tags) > 0
                /\ (\E k \in 1..Len(rule.tags) : rule.tags[k] \in disabledTagIds)
             THEN FALSE
        ELSE TRUE
      userRules == SelectSeq(stored.userRules, isRuleEnabled)
      communityRules == SelectSeq(stored.communityRules, isRuleEnabled)
  IN  userRules \o communityRules

\* A resolver that would drop a rule only when all of its tags are disabled.
LoadRulesEveryTag(stored) ==
  LET disabled == Range(stored.disabledRuleIds)
      disabledTagIds == { t.id : t \in { u \in Range(stored.tags) : ~u.enabled } }
      isRuleEnabled(rule) ==
        IF rule.id \in disabled THEN FALSE
        ELSE IF rule.enabled = FALSE THEN FALSE
        ELSE IF rule.hasTags /\ Len(rule.tags) > 0
                /\ (\A k \in 1..Len(rule.tags) : rule.tags[k] \in disabledTagIds)
             THEN FALSE
        ELSE TRUE
  IN  [ enabled |-> stored.enabled # FALSE,
        rules |-> SelectSeq(stored.userRules, isRuleEnabled)
                    \o SelectSeq(stored.communityRules, isRuleEnabled) ]

(***************************************************************************)
(* XorcistReplacer.loadRules: the content script's own copy of the         *)
(* resolver; it also derives the engine's enabled flag.                    *)
(***************************************************************************)
LoadRules(stored) ==
  LET disabled == Range(stored.disabledRuleIds)
      tags == stored.tags
      disabledTagIds == { t.id : t \in { u \in Range(tags) : ~u.enabled } }
      isRuleEnabled(rule) ==
        IF rule.id \in disabled THEN FALSE
        ELSE IF rule.enabled = FALSE THEN FALSE
        ELSE IF rule.hasTags /\ Len(rule.tags) > 0
                /\ (\E k \in 1..Len(rule.tags) : rule.tags[k] \in disabledTagIds)
             THEN FALSE
        ELSE TRUE
      userRules == SelectSeq(stored.userRules, isRuleEnabled)
      communityRules == SelectSeq(stored.communityRules, isRuleEnabled)
  IN  [ enabled |-> stored.enabled # FALSE, rules |-> userRules \o communityRules ]

(***************************************************************************)
(* The page.  Node 0 is document.body; an element or text node is a record *)
(* and a node id not yet used is "free".  kids is the child list in        *)
(* document order; a removed element keeps its own subtree.  processed is  *)
(* the data-xorcist-processed attribute, hidden is style.display = 'none', *)
(* and mutated records that a rule application has changed the node.       *)
(***************************************************************************)
Node == 0..(MaxNodes - 1)
Body == 0
NoNode == -1

FreeNode ==
  [ kind |-> "free", tag |-> "", id |-> "", cls |-> "", text |-> "", kids |-> <<>>,
    processed |-> FALSE, hidden |-> FALSE, mutated |-> FALSE,
    ariaLabel |-> "", alt |-> "", href |-> "" ]

Element(tag, id, cls, kids) ==
  [ kind |-> "el", tag |-> tag, id |-> id, cls |-> cls, text |-> "", kids |-> kids,
    processed |-> FALSE, hidden |-> FALSE, mutated |-> FALSE,
    ariaLabel |-> "", alt |-> "", href |-> "" ]

TextNode(text) ==
  [ kind |-> "text", tag |-> "", id |-> "", cls |-> "", text |-> text, kids |-> <<>>,
    processed |-> FALSE, hidden |-> FALSE, mutated |-> FALSE,
    ariaLabel |-> "", alt |-> "", href |-> "" ]

\* <a href=...>
Link(href, kids) == [ Element("a", "", "", kids) EXCEPT !.href = href ]

EmptyPage == [ n \in Node |-> IF n = Body THEN Element("body", "", "", <<>>) ELSE FreeNode ]

(***************************************************************************)
(* Strings: the operations of String.prototype and RegExp that the engine  *)
(* uses.  A content pattern of the model is a literal, with or without \b  *)
(* at its ends, compiled with the flags 'gi'.                              *)
(***************************************************************************)
Max(a, b) == IF a > b THEN a ELSE b

\* s.indexOf(pat) + 1, 0 when pat does not occur in s
Find(s, pat) ==
  LET hits == { i \in 1..(Len(s) - Len(pat) + 1) : SubSeq(s, i, i + Len(pat) - 1) = pat }
  IN  IF hits = {} THEN 0 ELSE CHOOSE i \in hits : \A j \in hits : i <= j

Includes(s, pat) == Find(s, pat) > 0

\* the text between the first `open` and the next `close`, '' when `open` is absent
Between(s, open, close) ==
  LET a == Find(s, open)
      rest == SubSeq(s, a + Len(open), Len(s))
      b == Find(rest, close)
  IN  IF a = 0 THEN "" ELSE IF b = 0 THEN rest ELSE SubSeq(rest, 1, b - 1)

UpperLetters == "ABCDEFGHIJKLMNOPQRSTUVWXYZ"
LowerLetters == "abcdefghijklmnopqrstuvwxyz"

LowerChar(c) ==
  LET k == Find(UpperLetters, c) IN IF k = 0 THEN c ELSE SubSeq(LowerLetters, k, k)

\* The operators on whole strings below work on the two halves of the
\* string, which keeps the evaluation shallow on long texts.
RECURSIVE ToLowerCase(_)
ToLowerCase(s) ==
  IF Len(s) <= 1 THEN LowerChar(s)
  ELSE ToLowerCase(SubSeq(s, 1, Len(s) \div 2))
         \o ToLowerCase(SubSeq(s, Len(s) \div 2 + 1, Len(s)))

WhiteSpace == " "

RECURSIVE TrimStart(_)
TrimStart(s) ==
  IF Len(s) <= 1 THEN (IF Includes(WhiteSpace, s) THEN "" ELSE s)
  ELSE IF TrimStart(SubSeq(s, 1, Len(s) \div 2)) # ""
       THEN TrimStart(SubSeq(s, 1, Len(s) \div 2)) \o SubSeq(s, Len(s) \div 2 + 1, Len(s))
  ELSE TrimStart(SubSeq(s, Len(s) \div 2 + 1, Len(s)))

RECURSIVE TrimEnd(_)
TrimEnd(s) ==
  IF Len(s) <= 1 THEN (IF Includes(WhiteSpace, s) THEN "" ELSE s)
  ELSE IF TrimEnd(SubSeq(s, Len(s) \div 2 + 1, Len(s))) # ""
       THEN SubSeq(s, 1, Len(s) \div 2) \o TrimEnd(SubSeq(s, Len(s) \div 2 + 1, Len(s)))
  ELSE TrimEnd(SubSeq(s, 1, Len(s) \div 2))

Trim(s) == TrimEnd(TrimStart(s))

\* text.replace(/[\s\-...|/\\:,;.!?'"()[\]{}]+/g, '')
Punctuation == " -|/:,;.!?'()[]{}"

RECURSIVE StripPunctuation(_)
StripPunctuation(s) ==
  IF Len(s) <= 1 THEN (IF Includes(Punctuation, s) THEN "" ELSE s)
  ELSE StripPunctuation(SubSeq(s, 1, Len(s) \div 2))
         \o StripPunctuation(SubSeq(s, Len(s) \div 2 + 1, Len(s)))

RECURSIVE CountChar(_, _)
CountChar(s, c) ==
  IF Len(s) <= 1 THEN (IF s = c THEN 1 ELSE 0)
  ELSE CountChar(SubSeq(s, 1, Len(s) \div 2), c)
         + CountChar(SubSeq(s, Len(s) \div 2 + 1, Len(s)), c)

\* new RegExp(pattern, 'gi') throws on an unbalanced group
RegExpValid(pattern) == CountChar(pattern, "(") = CountChar(pattern, ")")

\* The patterns of the model: a literal, with \b allowed before and after it.
WordBoundary == "\\b"

LeadingBoundary(pattern) ==
  Len(pattern) >= Len(WordBoundary) /\ SubSeq(pattern, 1, Len(WordBoundary)) = WordBoundary

AfterLead(pattern) ==
  IF LeadingBoundary(pattern) THEN SubSeq(pattern, Len(WordBoundary) + 1, Len(pattern))
  ELSE pattern

TrailingBoundary(pattern) ==
  LET rest == AfterLead(pattern)
  IN  /\ Len(rest) >= Len(WordBoundary)
      /\ SubSeq(rest, Len(rest) - Len(WordBoundary) + 1, Len(rest)) = WordBoundary

\* the literal of the pattern
Literal(pattern) ==
  LET rest == AfterLead(pattern)
  IN  IF TrailingBoundary(pattern) THEN SubSeq(rest, 1, Len(rest) - Len(WordBoundary))
      ELSE rest

WordChars == UpperLetters \o LowerLetters \o "0123456789_"

\* \w at position i of text (false outside the text)
IsWordChar(text, i) == i >= 1 /\ i <= Len(text) /\ Includes(WordChars, SubSeq(text, i, i))

\* \b between positions i - 1 and i of text
BoundaryAt(text, i) == IsWordChar(text, i - 1) # IsWordChar(text, i)

\* the pattern matches text at position i (flag i: letter case is ignored)
MatchAt(pattern, text, i) ==
  LET lit == Literal(pattern)
  IN  /\ i + Len(lit) - 1 <= Len(text)
      /\ ToLowerCase(SubSeq(text, i, i + Len(lit) - 1)) = ToLowerCase(lit)
      /\ LeadingBoundary(pattern) => BoundaryAt(text, i)
      /\ TrailingBoundary(pattern) => BoundaryAt(text, i + Len(lit))

\* regex.lastIndex = 0; regex.test(text)
RegExpTest(pattern, text) ==
  \E i \in 1..(Len(text) - Len(Literal(pattern)) + 1) : MatchAt(pattern, text, i)

\* text.replace(regex, replacement) from position i on: every match, left to
\* right; after an empty match the scan moves on by one character
RECURSIVE ReplaceFrom(_, _, _, _)
ReplaceFrom(pattern, text, i, replacement) ==
  LET n == Len(Literal(pattern))
  IN  IF i > Len(text)
      THEN IF MatchAt(pattern, text, i) THEN replacement ELSE ""
      ELSE IF MatchAt(pattern, text, i)
           THEN IF n = 0
                THEN replacement \o SubSeq(text, i, i)
                       \o ReplaceFrom(pattern, text, i + 1, replacement)
                ELSE replacement \o ReplaceFrom(pattern, text, i + n, replacement)
      ELSE SubSeq(text, i, i) \o ReplaceFrom(pattern, text, i + 1, replacement)

RegExpReplace(pattern, text, replacement) == ReplaceFrom(pattern, text, 1, replacement)

(***************************************************************************)
(* Tree queries.                                                           *)
(***************************************************************************)
RECURSIVE Subtree(_, _), Forest(_, _)
\* n and its descendants in document order
Subtree(d, n) == << n >> \o Forest(d, d[n].kids)
Forest(d, s) == IF s = << >> THEN << >> ELSE Subtree(d, Head(s)) \o Forest(d, Tail(s))

IsElement(d, n) == d[n].kind = "el"

\* node.parentElement
Parent(d, n) ==
  LET ps == { m \in Node : d[m].kind = "el" /\ n \in Range(d[m].kids) }
  IN  IF ps = {} THEN NoNode ELSE CHOOSE m \in ps : TRUE

Attached(d, n) == n \in Range(Subtree(d, Body))

RECURSIVE TextContent(_, _), TextOfAll(_, _)
\* node.textContent
TextContent(d, n) == IF d[n].kind = "text" THEN d[n].text ELSE TextOfAll(d, d[n].kids)
TextOfAll(d, s) ==
  IF s = << >> THEN "" ELSE TextContent(d, Head(s)) \o TextOfAll(d, Tail(s))

\* el.children
Children(d, n) == SelectSeq(d[n].kids, LAMBDA c : d[c].kind = "el")

\* el.closest('[data-xorcist-processed]') is not null
RECURSIVE ClosestProcessed(_, _)
ClosestProcessed(d, n) ==
  IF n = NoNode THEN FALSE
  ELSE IF d[n].processed THEN TRUE
  ELSE ClosestProcessed(d, Parent(d, n))

(***************************************************************************)
(* Selectors of the model: '#id' and 'tag.class'; a selector with an       *)
(* unbalanced bracket makes querySelectorAll throw.                        *)
(***************************************************************************)
SelectorValid(selector) == CountChar(selector, "[") = CountChar(selector, "]")

Matches(e, selector) ==
  IF SubSeq(selector, 1, 1) = "#" THEN e.id = SubSeq(selector, 2, Len(selector))
  ELSE LET dot == Find(selector, ".")
       IN  IF dot = 0 THEN e.tag = selector
           ELSE /\ (dot = 1 \/ e.tag = SubSeq(selector, 1, dot - 1))
                /\ e.cls = SubSeq(selector, dot + 1, Len(selector))

\* document.querySelectorAll(selector): a static list in document order
QuerySelectorAll(d, selector) ==
  SelectSeq(Subtree(d, Body), LAMBDA n : IsElement(d, n) /\ Matches(d[n], selector))

\* document.body.querySelectorAll('*:not(script):not(style):not(noscript)')
AllElements(d) ==
  SelectSeq(Forest(d, d[Body].kids),
            LAMBDA n : IsElement(d, n) /\ d[n].tag \notin {"script", "style", "noscript"})

(***************************************************************************)
(* The reporter's selector synthesis.                                      *)
(***************************************************************************)
Digits == { "0", "1", "2", "3", "4", "5", "6", "7", "8", "9" }

\* CSS.escape on identifiers of letters, digits, '-' and '_': a leading
\* digit is written as its code point
CssEscape(ident) ==
  IF ident # "" /\ SubSeq(ident, 1, 1) \in Digits
  THEN "\\3" \o SubSeq(ident, 1, 1) \o " " \o SubSeq(ident, 2, Len(ident))
  ELSE ident

RECURSIVE SplitSpaces(_)
\* str.split(/\s+/) of a trimmed string
SplitSpaces(str) ==
  LET sp == Find(str, " ")
  IN  IF sp = 0 THEN << str >>
      ELSE << SubSeq(str, 1, sp - 1) >> \o SplitSpaces(TrimStart(SubSeq(str, sp, Len(str))))

StartsWith(str, prefix) ==
  Len(str) >= Len(prefix) /\ SubSeq(str, 1, Len(prefix)) = prefix

RECURSIVE ClassSelectors(_)
\* the '.class' parts of a step: the for loop over the first two classes
ClassSelectors(classes) ==
  IF classes = << >> THEN ""
  ELSE (IF Head(classes) # "" /\ ~StartsWith(Head(classes), "xorcist-")
        THEN "." \o CssEscape(Head(classes)) ELSE "")
       \o ClassSelectors(Tail(classes))

\* One pass of the while loop: the selector of current
SelectorStep(d, current) ==
  LET classes == IF d[current].cls # ""
                 THEN SplitSpaces(Trim(d[current].cls))
                 ELSE << >>
      firstTwo == SubSeq(classes, 1, IF Len(classes) < 2 THEN Len(classes) ELSE 2)
      parent == Parent(d, current)
      siblings == IF parent = NoNode THEN << >>
                  ELSE SelectSeq(Children(d, parent), LAMBDA c : d[c].tag = d[current].tag)
      index == CHOOSE i \in 1..Len(siblings) : siblings[i] = current
  IN  d[current].tag \o ClassSelectors(firstTwo)
        \o (IF Len(siblings) > 1 THEN ":nth-of-type(" \o ToString(index) \o ")" ELSE "")

RECURSIVE SelectorPath(_, _)
\* the while loop: path.unshift(selector) up to document.body, then join
SelectorPath(d, current) ==
  IF current = NoNode \/ current = Body THEN << >>
  ELSE Append(SelectorPath(d, Parent(d, current)), SelectorStep(d, current))

RECURSIVE Join(_, _)
Join(path, sep) ==
  IF path = << >> THEN ""
  ELSE IF Len(path) = 1 THEN Head(path)
  ELSE Head(path) \o sep \o Join(Tail(path), sep)

\* A synthesis that builds the path for every element
GenerateSelectorPathOnly(d, element) == Join(SelectorPath(d, element), " > ")

\* XorcistReporter.generateSelector(element)
GenerateSelector(d, element) ==
  IF d[element].id # "" THEN "#" \o CssEscape(d[element].id)
  ELSE Join(SelectorPath(d, element), " > ")

(***************************************************************************)
(* Tree mutations.                                                         *)
(***************************************************************************)
FreeNodes(d) == { n \in Node : d[n].kind = "free" }

FirstFree(d) == CHOOSE n \in FreeNodes(d) : \A m \in FreeNodes(d) : n <= m
SecondFree(d) ==
  CHOOSE n \in FreeNodes(d) \ {FirstFree(d)} : \A m \in FreeNodes(d) \ {FirstFree(d)} : n <= m

\* The HTML parser on a fragment of the model: text, or one element
\* <tag id='..' class='..'>text</tag>.
ParseHTML(html) ==
  IF html = "" THEN [ kind |-> "none", tag |-> "", id |-> "", cls |-> "", text |-> "" ]
  ELSE IF SubSeq(html, 1, 1) # "<"
       THEN [ kind |-> "text", tag |-> "", id |-> "", cls |-> "", text |-> html ]
  ELSE LET head == Between(html, "<", ">")
           sp == Find(head, " ")
       IN  [ kind |-> "el",
             tag |-> IF sp = 0 THEN head ELSE SubSeq(head, 1, sp - 1),
             id |-> Between(head, "id='", "'"),
             cls |-> Between(head, "class='", "'"),
             text |-> Between(html, ">", "</") ]

NodesNeeded(html) ==
  LET f == ParseHTML(html)
  IN  IF f.kind = "none" THEN 0
      ELSE IF f.kind = "text" \/ f.text = "" THEN 1 ELSE 2

\* element.innerHTML = html
SetInnerHTML(d, el, html) ==
  LET f == ParseHTML(html)
      a == FirstFree(d)
      b == SecondFree(d)
  IN  IF f.kind = "none" THEN [ d EXCEPT ![el].kids = << >> ]
      ELSE IF f.kind = "text"
           THEN [ d EXCEPT ![el].kids = << a >>, ![a] = TextNode(f.text) ]
      ELSE IF f.text = ""
           THEN [ d EXCEPT ![el].kids = << a >>, ![a] = Element(f.tag, f.id, f.cls, << >>) ]
      ELSE [ d EXCEPT ![el].kids = << a >>, ![a] = Element(f.tag, f.id, f.cls, << b >>),
                      ![b] = TextNode(f.text) ]

\* element.remove()
RemoveChild(d, el) ==
  LET p == Parent(d, el)
  IN  IF p = NoNode THEN d
      ELSE [ d EXCEPT ![p].kids = SelectSeq(d[p].kids, LAMBDA c : c # el) ]

\* parent.appendChild(new element)
AppendElement(d, p, e) ==
  LET a == FirstFree(d) IN [ d EXCEPT ![p].kids = Append(d[p].kids, a), ![a] = e ]

(***************************************************************************)
(* State.                                                                  *)
(*   store          chrome.storage.local                                   *)
(*   merged         the last GET_RULES reply of the background             *)
(*   rules, enabled, appliedCount   the fields of XorcistReplacer          *)
(*   loads          loadRules calls whose storage read has not resolved    *)
(*   listening      init has registered the storage.onChanged listener     *)
(*   notifs         onChanged events queued for the content script         *)
(*   dom            the page                                               *)
(*   observerPending MutationObserver has undelivered childList records    *)
(*   stack          the applyAll activations that have not returned        *)
(*   ruleVer, cacheVer, last, hist   history: number of writes to a rule   *)
(*                  key, the ruleVer the cached list was read at, what the *)
(*                  last step did, and the applyAll runs so far            *)
(*   calls          the activations of the background's handlers that have *)
(*                  not returned, and the syncs that have                  *)
(*   panel          XorcistBatchPanel: pendingRules and the Save All button *)
(***************************************************************************)
VARIABLES store, merged, rules, enabled, appliedCount, loads, listening, notifs,
          dom, observerPending, stack, ruleVer, cacheVer, last, hist, calls,
          panel

vars == << store, merged, rules, enabled, appliedCount, loads, listening, notifs,
           dom, observerPending, stack, ruleVer, cacheVer, last, hist, calls,
           panel >>

\* The batch panel as createPanel leaves it
NoPanel == [ pendingRules |-> << >>, saveDisabled |-> TRUE ]

\* The popup's view of the rules: the last answer to GET_RULES, and whether
\* there was an answer before it.
NoReply == [ done |-> FALSE, rules |-> <<>>, again |-> FALSE ]

\* What a step of the content script did: the handler, the keys of the change it handled, whether it
\* called applyAll (and with which enabled flag), the ruleVer of the store
\* change it answers, and, when an applyAll run returned in this step, that
\* run's trigger, whether it repeats the run before it, and its applied-count.
\* textCount, elementCount: the response of GET_STATS.  on: the flag that a
\* toggle of the background was called with.
NoEvent ==
  [ op |-> "none", keys |-> {}, called |-> FALSE, enabledAtCall |-> FALSE,
    needVer |-> 0, ran |-> FALSE, trig |-> "", repeat |-> FALSE, applied |-> 0,
    textCount |-> 0, elementCount |-> 0, on |-> FALSE, node |-> NoNode, selector |-> "",
    arg |-> << >>, ok |-> TRUE ]

Event(op) == [ NoEvent EXCEPT !.op = op ]

\* The runs so far: stable = the last run returned and the page was not
\* changed from outside since; ranRules = the list that run applied;
\* loopRuns = the consecutive mutating runs of the current observer loop and
\* loopSize = the number of elements of the page when that loop began.
\* tried = the strategies that run carried out, in order: << rule id,
\* "selector" >> for a querySelectorAll that returned, << rule id, "content" >>
\* for a content pattern that compiled.  page = the tree that run began on.
NoHistory ==
  [ stable |-> FALSE, ranRules |-> << >>, loopRuns |-> 0, loopSize |-> 0, tried |-> << >>,
    page |-> EmptyPage ]

(***************************************************************************)
(* XorcistReplacer: matching.                                              *)
(***************************************************************************)
Hostname == "example.com"

ShortPatternLen == 3
ShortPatternSlack == 2
MediumPatternLen == 20
MediumPatternFactor == 3
ContainerTextLimit == 100

\* A filter that would compare hostnames without regard to letter case.
AppliesToHostAnyCase(rule) ==
  IF rule.hostname = "" \/ rule.hostname = "*" THEN TRUE
  ELSE Includes(ToLowerCase(Hostname), ToLowerCase(rule.hostname))

\* applyAll: the filter that keeps the rules of this hostname
AppliesToHost(rule) ==
  IF rule.hostname = "" \/ rule.hostname = "*" THEN TRUE
  ELSE Includes(Hostname, rule.hostname)

\* A heuristic that would trust every match of a pattern longer than the
\* short ones.
ShouldRemoveTwoTiers(patternLen, text) ==
  IF patternLen <= ShortPatternLen
  THEN Len(StripPunctuation(ToLowerCase(text))) <= patternLen + ShortPatternSlack
  ELSE TRUE

\* applyRuleToMatchingElements: shouldRemove, by the length of the pattern
ShouldRemove(patternLen, text) ==
  LET normalized == StripPunctuation(ToLowerCase(text))
  IN  IF patternLen <= ShortPatternLen
      THEN Len(normalized) <= patternLen + ShortPatternSlack
      ELSE IF patternLen <= MediumPatternLen
           THEN Len(text) <= patternLen * MediumPatternFactor
      ELSE TRUE

\* A test that would act on a container whatever the length of its text.
ShouldApplyToAnyContainer(d, el, rule) ==
  LET text == Trim(TextContent(d, el))
  IN  /\ ~d[el].processed
      /\ text # ""
      /\ RegExpTest(rule.contentPattern, text)
      /\ ShouldRemove(Len(rule.contentPattern), text)

\* applyRuleToMatchingElements: the test of one element of the static list
ShouldApplyToElement(d, el, rule) ==
  LET text == Trim(TextContent(d, el))
      patternLen == Len(rule.contentPattern)
  IN  /\ ~d[el].processed
      /\ text # ""
      /\ RegExpTest(rule.contentPattern, text)
      /\ ShouldRemove(patternLen, text)
      /\ (Len(Children(d, el)) = 0 \/ Len(text) < ContainerTextLimit)

\* replaceMatchingText: the TreeWalker filter
AcceptNode(d, t) ==
  LET parent == Parent(d, t)
  IN  /\ parent # NoNode
      /\ d[parent].tag \notin {"script", "style", "noscript", "textarea", "input"}
      /\ ~ClosestProcessed(d, parent)

\* replaceMatchingText: nodesToProcess
NodesToProcess(d, rule) ==
  SelectSeq(Subtree(d, Body),
            LAMBDA t : /\ d[t].kind = "text"
                       /\ AcceptNode(d, t)
                       /\ RegExpTest(rule.contentPattern, d[t].text))

\* applyRuleToTextNode: the text the switch on rule.action computes
NewText(d, t, rule) ==
  CASE rule.action = "remove" -> RegExpReplace(rule.contentPattern, d[t].text, "")
    [] rule.action = "replace" ->
         RegExpReplace(rule.contentPattern, d[t].text, rule.replacement)
    [] OTHER -> d[t].text

\* A guard that would not look at the parent's marker.
TextNodeGuardNone(d, t) == Parent(d, t) # NoNode

\* applyRuleToTextNode: the guard on the parent element
TextNodeGuard(d, t) == Parent(d, t) # NoNode /\ ~d[Parent(d, t)].processed

\* applyRuleToTextNode edits this text node
TextNodeApplies(d, t, rule) ==
  /\ TextNodeGuard(d, t)
  /\ RegExpValid(rule.contentPattern)
  /\ NewText(d, t, rule) # d[t].text

\* applyRuleToElement: the guard on the element
ElementGuard(d, el) == ~d[el].processed

(***************************************************************************)
(* One activation of applyAll: the applicable rules not yet applied (rq,   *)
(* its head the rule in hand), the phase of applyRuleToPage (ph), the      *)
(* static node list being walked (wl) and, between the two halves of an    *)
(* apply, the node in hand (cur).  trig, rep, loopRuns, loopSize are       *)
(* history: what triggered the run and what it continues; page is the tree *)
(* at the call.                                                            *)
(***************************************************************************)
NextRule(f) == [ f EXCEPT !.rq = Tail(f.rq), !.ph = "rule", !.wl = << >> ]

\* An applyRuleByContent that would rewrite text runs for every action.
ByContentTextLevel(d, f) ==
  LET rule == Head(f.rq)
      g == [ f EXCEPT !.tried = Append(f.tried, << rule.id, "content" >>) ]
  IN  IF rule.contentPattern = "" THEN NextRule(f)
      ELSE IF ~RegExpValid(rule.contentPattern) THEN NextRule(f)
      ELSE [ g EXCEPT !.ph = "texts", !.wl = NodesToProcess(d, rule) ]

\* applyRuleByContent
ByContent(d, f) ==
  LET rule == Head(f.rq)
      g == [ f EXCEPT !.tried = Append(f.tried, << rule.id, "content" >>) ]
  IN  IF rule.contentPattern = "" THEN NextRule(f)
      ELSE IF ~RegExpValid(rule.contentPattern) THEN NextRule(f)
      ELSE IF rule.action = "remove" \/ rule.action = "hide"
           THEN [ g EXCEPT !.ph = "elems", !.wl = AllElements(d) ]
      ELSE [ g EXCEPT !.ph = "texts", !.wl = NodesToProcess(d, rule) ]

\* An applyRuleToPage that would let the error of querySelectorAll end its
\* work on the rule.
ToPageGivesUpRule(d, f) ==
  LET rule == Head(f.rq)
  IN  IF rule.contentPattern = "" /\ rule.selector = "" THEN NextRule(f)
      ELSE IF rule.selector # "" /\ ~SelectorValid(rule.selector) THEN NextRule(f)
      ELSE IF rule.selector # ""
           THEN [ f EXCEPT !.ph = "sel", !.wl = QuerySelectorAll(d, rule.selector),
                           !.tried = Append(f.tried, << rule.id, "selector" >>) ]
      ELSE ByContent(d, f)

\* An applyRuleToPage that would put the elements the selector matches to
\* the tests of the content matching before a remove or hide.
ToPageWithHeuristic(d, f) ==
  LET rule == Head(f.rq)
  IN  IF rule.contentPattern = "" /\ rule.selector = "" THEN NextRule(f)
      ELSE IF rule.selector # "" /\ SelectorValid(rule.selector)
           THEN [ f EXCEPT !.ph = "sel",
                           !.wl = SelectSeq(QuerySelectorAll(d, rule.selector),
                                            LAMBDA el : rule.action \notin {"remove", "hide"}
                                                        \/ ShouldApplyToElement(d, el, rule)),
                           !.tried = Append(f.tried, << rule.id, "selector" >>) ]
      ELSE ByContent(d, f)

\* applyRuleToPage, up to the selector query: an invalid selector throws in
\* querySelectorAll and the catch falls through to the content pattern
ToPage(d, f) ==
  LET rule == Head(f.rq)
  IN  IF rule.contentPattern = "" /\ rule.selector = "" THEN NextRule(f)
      ELSE IF rule.selector # "" /\ SelectorValid(rule.selector)
           THEN [ f EXCEPT !.ph = "sel", !.wl = QuerySelectorAll(d, rule.selector),
                           !.tried = Append(f.tried, << rule.id, "selector" >>) ]
      ELSE ByContent(d, f)

\* The loops of applyAll, applyRuleToPage, applyRuleToMatchingElements and
\* replaceMatchingText run on, without changing the page, to the next node
\* that is applied to or to the return of applyAll (rq empty).
RECURSIVE Advance(_, _)
Advance(d, f) ==
  IF f.rq = << >> THEN f
  ELSE IF f.ph = "rule" THEN Advance(d, ToPage(d, f))
  ELSE IF f.ph = "sel"
       THEN IF f.wl = << >> THEN Advance(d, ByContent(d, f))
            ELSE IF ~d[Head(f.wl)].processed /\ ElementGuard(d, Head(f.wl)) THEN f
            ELSE Advance(d, [ f EXCEPT !.wl = Tail(f.wl) ])
  ELSE IF f.ph = "elems"
       THEN IF f.wl = << >> THEN Advance(d, NextRule(f))
            ELSE IF ShouldApplyToElement(d, Head(f.wl), Head(f.rq))
                    /\ ElementGuard(d, Head(f.wl)) THEN f
            ELSE Advance(d, [ f EXCEPT !.wl = Tail(f.wl) ])
  ELSE IF f.ph = "texts"
       THEN IF f.wl = << >> THEN Advance(d, NextRule(f))
            ELSE IF TextNodeApplies(d, Head(f.wl), Head(f.rq)) THEN f
            ELSE Advance(d, [ f EXCEPT !.wl = Tail(f.wl) ])
  ELSE f

ElementCount(d) == Len(SelectSeq(Subtree(d, Body), LAMBDA n : IsElement(d, n)))

\* An applyAll that would walk the applicable rules from the last to the first.
NewFrameLastFirst(rs, d, trig, h) ==
  LET rep == h.stable /\ rs = h.ranRules
      inLoop == rep /\ trig = "observer" /\ h.loopRuns > 0
  IN  [ trig |-> trig, rep |-> rep,
        loopRuns |-> IF inLoop THEN h.loopRuns ELSE 0,
        loopSize |-> IF inLoop THEN h.loopSize ELSE ElementCount(d),
        rules |-> rs,
        rq |-> LET seq == SelectSeq(rs, AppliesToHost)
               IN  [ i \in 1..Len(seq) |-> seq[Len(seq) + 1 - i] ],
        ph |-> "rule",
        wl |-> << >>, cur |-> NoNode, ret |-> "rule", tried |-> << >>, page |-> d ]

NewFrame(rs, d, trig, h) ==
  LET rep == h.stable /\ rs = h.ranRules
      inLoop == rep /\ trig = "observer" /\ h.loopRuns > 0
  IN  [ trig |-> trig, rep |-> rep,
        loopRuns |-> IF inLoop THEN h.loopRuns ELSE 0,
        loopSize |-> IF inLoop THEN h.loopSize ELSE ElementCount(d),
        rules |-> rs, rq |-> SelectSeq(rs, AppliesToHost), ph |-> "rule",
        wl |-> << >>, cur |-> NoNode, ret |-> "rule", tried |-> << >>, page |-> d ]

RunReturned(f, applied) ==
  [ stable |-> TRUE, ranRules |-> f.rules,
    loopRuns |-> IF applied > 0 THEN f.loopRuns + 1 ELSE 0, loopSize |-> f.loopSize,
    tried |-> f.tried, page |-> f.page ]

RanEvent(ev, f, applied) ==
  [ ev EXCEPT !.ran = TRUE, !.trig = f.trig, !.repeat = f.rep, !.applied = applied ]

\* An applyAll that would yield the thread between two applies.
SuspendsBetweenRules(f) == f.ph \in {"sel", "elems", "texts"}

\* applyAll is a plain function: an activation never suspends before it returns.
Suspended(f) == FALSE

\* The content script's thread is free to run a handler.
Idle == \A i \in 1..Len(stack) : Suspended(stack[i])

\* An applyAll that would reset appliedCount before it tests this.enabled.
ApplyAllResetsFirst(en, rs, ev, trig) ==
  \E f \in { Advance(dom, NewFrame(rs, dom, trig, hist)) } :
      /\ appliedCount' = 0
      /\ stack' = IF en /\ f.rq # << >> THEN Append(stack, f) ELSE stack
      /\ hist' = IF en /\ f.rq = << >> THEN RunReturned(f, 0) ELSE hist
      /\ last' = IF en /\ f.rq = << >>
                 THEN RanEvent([ ev EXCEPT !.called = TRUE, !.enabledAtCall = en ], f, 0)
                 ELSE [ ev EXCEPT !.called = TRUE, !.enabledAtCall = en ]

\* An applyAll that would go on counting from the run before.
ApplyAllKeepsCount(en, rs, ev, trig) ==
  IF ~en
  THEN /\ UNCHANGED << panel, calls, appliedCount, stack, hist >>
       /\ last' = [ ev EXCEPT !.called = TRUE, !.enabledAtCall = FALSE ]
  ELSE \E f \in { Advance(dom, NewFrame(rs, dom, trig, hist)) } :
           /\ appliedCount' = appliedCount
           /\ IF f.rq = << >>
              THEN /\ stack' = stack
                   /\ hist' = RunReturned(f, appliedCount)
                   /\ last' = RanEvent([ ev EXCEPT !.called = TRUE, !.enabledAtCall = TRUE ],
                                        f, appliedCount)
              ELSE /\ stack' = Append(stack, f)
                   /\ hist' = hist
                   /\ last' = [ ev EXCEPT !.called = TRUE, !.enabledAtCall = TRUE ]

\* XorcistReplacer.applyAll(), called by handler event ev with this.enabled = en
\* and this.rules = rs; the call does not change the page itself.
ApplyAll(en, rs, ev, trig) ==
  IF ~en
  THEN /\ UNCHANGED << panel, calls, appliedCount, stack, hist >>
       /\ last' = [ ev EXCEPT !.called = TRUE, !.enabledAtCall = FALSE ]
  ELSE \E f \in { Advance(dom, NewFrame(rs, dom, trig, hist)) } :
           /\ appliedCount' = 0
           /\ IF f.rq = << >>
              THEN /\ stack' = stack
                   /\ hist' = RunReturned(f, 0)
                   /\ last' = RanEvent([ ev EXCEPT !.called = TRUE, !.enabledAtCall = TRUE ],
                                        f, 0)
              ELSE /\ stack' = Append(stack, f)
                   /\ hist' = hist
                   /\ last' = [ ev EXCEPT !.called = TRUE, !.enabledAtCall = TRUE ]

(***************************************************************************)
(* XorcistReplacer: the steps of a running activation.                     *)
(***************************************************************************)
Top == stack[Len(stack)]

\* The activation goes on from frame f on page d with applied-count n: to
\* its next apply, or it returns.
Continue(d, f, n) ==
  \E g \in { Advance(d, f) } :
      IF g.rq = << >>
      THEN /\ stack' = SubSeq(stack, 1, Len(stack) - 1)
           /\ hist' = RunReturned(g, n)
           /\ last' = RanEvent(Event("applyAll"), g, n)
      ELSE /\ stack' = [ stack EXCEPT ![Len(stack)] = g ]
           /\ hist' = hist
           /\ last' = Event("applyAll")

\* applyRuleToElement, first half: setAttribute('data-xorcist-processed'),
\* this.appliedCount++
MarkElement ==
  /\ stack # << >> /\ Top.ph \in {"sel", "elems"}
  /\ LET el == Head(Top.wl)
     IN  /\ dom' = [ dom EXCEPT ![el].processed = TRUE ]
         /\ appliedCount' = appliedCount + 1
         /\ stack' = [ stack EXCEPT ![Len(stack)] =
                         [ Top EXCEPT !.ph = "elMid", !.cur = el, !.ret = Top.ph,
                                      !.wl = Tail(Top.wl) ] ]
  /\ last' = Event("applyAll")
  /\ UNCHANGED << panel, calls, store, merged, rules, enabled, loads, listening, notifs,
                  observerPending, ruleVer, cacheVer, hist >>

\* The page after the switch on rule.action of applyRuleToElement
ElementAction(d, el, rule) ==
  CASE rule.action = "remove" ->
         [ RemoveChild(d, el) EXCEPT ![el].mutated = TRUE ]
    [] rule.action = "replace" ->
         IF rule.replacement # ""
         THEN [ SetInnerHTML(d, el, rule.replacement) EXCEPT ![el].mutated = TRUE ]
         ELSE d
    [] rule.action = "hide" -> [ d EXCEPT ![el].hidden = TRUE, ![el].mutated = TRUE ]
    [] OTHER -> d

\* The MutationObserver on document.body (childList, subtree) gets a record
\* when the child list of a node in the body's tree changes.
ChildListRecord(d, e) ==
  \E n \in Node : Attached(d, n) /\ d[n].kids # e[n].kids

\* applyRuleToElement, second half: the switch on rule.action
MutateElement ==
  /\ stack # << >> /\ Top.ph = "elMid"
  /\ Head(Top.rq).action = "replace" =>
       Cardinality(FreeNodes(dom)) >= NodesNeeded(Head(Top.rq).replacement)
  /\ \E d \in { ElementAction(dom, Top.cur, Head(Top.rq)) } :
         /\ dom' = d
         /\ observerPending' = (observerPending \/ ChildListRecord(dom, d))
         /\ Continue(d, [ Top EXCEPT !.ph = Top.ret, !.cur = NoNode ], appliedCount)
  /\ UNCHANGED << panel, calls, store, merged, rules, enabled, appliedCount, loads, listening, notifs,
                  ruleVer, cacheVer >>

\* applyRuleToTextNode, first half: textNode.textContent = newText
EditText ==
  /\ stack # << >> /\ Top.ph = "texts"
  /\ LET t == Head(Top.wl)
     IN  /\ dom' = [ dom EXCEPT ![t].text = NewText(dom, t, Head(Top.rq)),
                                ![Parent(dom, t)].mutated = TRUE ]
         /\ stack' = [ stack EXCEPT ![Len(stack)] =
                         [ Top EXCEPT !.ph = "txMid", !.cur = t, !.wl = Tail(Top.wl) ] ]
  /\ last' = Event("applyAll")
  /\ UNCHANGED << panel, calls, store, merged, rules, enabled, appliedCount, loads, listening, notifs,
                  observerPending, ruleVer, cacheVer, hist >>

\* applyRuleToTextNode, second half: parent.setAttribute(...), appliedCount++
MarkTextParent ==
  /\ stack # << >> /\ Top.ph = "txMid"
  /\ \E d \in { [ dom EXCEPT ![Parent(dom, Top.cur)].processed = TRUE ] } :
         /\ dom' = d
         /\ appliedCount' = appliedCount + 1
         /\ Continue(d, [ Top EXCEPT !.ph = "texts", !.cur = NoNode ], appliedCount + 1)
  /\ UNCHANGED << panel, calls, store, merged, rules, enabled, loads, listening, notifs,
                  observerPending, ruleVer, cacheVer >>

(***************************************************************************)
(* The content script's handlers.  A handler runs when the thread is free; *)
(* the MutationObserver callback is a microtask and runs before any task.  *)
(***************************************************************************)
\* A listener that would not react to the tags key.
RuleKeysWithoutTags == {"communityRules", "userRules", "disabledRuleIds"}

\* init's onChanged listener: the keys that make it call loadRules
RuleKeys == {"communityRules", "userRules", "disabledRuleIds", "tags"}

\* A loadRules call: init = the call of init(); served = the browser has read
\* the store for it, reply = what loadRules computes from that read, ver =
\* the ruleVer it read at; needVer = the ruleVer of the change that caused it.
Load(init, needVer) ==
  [ init |-> init, served |-> FALSE, reply |-> [ enabled |-> TRUE, rules |-> << >> ],
    ver |-> -1, needVer |-> needVer ]

\* chrome.storage.local.get of loadRules: the browser reads the store, at
\* some moment between two handlers of the content script.
StoreServesGet ==
  /\ Idle
  /\ \E i \in 1..Len(loads) :
       /\ ~loads[i].served
       /\ \A j \in 1..(i - 1) : loads[j].served
       /\ loads' = [ loads EXCEPT ![i].served = TRUE, ![i].reply = LoadRules(store),
                                  ![i].ver = ruleVer ]
  /\ last' = NoEvent
  /\ UNCHANGED << panel, calls, store, merged, rules, enabled, appliedCount, listening, notifs, dom,
                  observerPending, stack, ruleVer, cacheVer, hist >>

\* loadRules resumes after its await, and then its caller: init (applyAll,
\* addListener) or the listener's .then(() => this.applyAll()).
DeliverLoad ==
  /\ Idle /\ ~observerPending
  /\ loads # << >> /\ Head(loads).served
  /\ LET l == Head(loads)
     IN  /\ rules' = l.reply.rules
         /\ enabled' = l.reply.enabled
         /\ cacheVer' = l.ver
         /\ loads' = Tail(loads)
         /\ listening' = (listening \/ l.init)
         /\ ApplyAll(l.reply.enabled, l.reply.rules,
                     [ Event("loadRules") EXCEPT !.needVer = l.needVer ],
                     IF l.init THEN "init" ELSE "storage")
  /\ UNCHANGED << panel, calls, store, merged, notifs, dom, observerPending, ruleVer >>

\* chrome.storage.local.get rejects: loadRules throws at its await, before it
\* assigns this.enabled or this.rules, and its caller goes no further (init
\* neither calls applyAll nor adds the listener; the listener's .then
\* callback is not called).
LoadFails ==
  /\ Idle /\ ~observerPending
  /\ loads # << >> /\ ~Head(loads).served
  /\ loads' = Tail(loads)
  /\ last' = [ Event("loadFailed") EXCEPT !.needVer = Head(loads).needVer ]
  /\ UNCHANGED << panel, calls, store, merged, rules, enabled, appliedCount, listening, notifs, dom,
                  observerPending, stack, ruleVer, cacheVer, hist >>

\* The storage.onChanged listener of init
OnChanged ==
  /\ Idle /\ ~observerPending
  /\ notifs # << >>
  /\ LET changes == Head(notifs)
         ev == [ Event("onChanged") EXCEPT !.keys = changes.keys, !.needVer = changes.ver ]
     IN  /\ notifs' = Tail(notifs)
         /\ loads' = IF changes.keys \cap RuleKeys # {}
                     THEN Append(loads, Load(FALSE, changes.ver))
                     ELSE loads
         /\ IF "enabled" \in changes.keys
            THEN /\ enabled' = changes.enabled
                 /\ ApplyAll(changes.enabled, rules, ev, "storage")
            ELSE /\ last' = ev
                 /\ UNCHANGED << panel, calls, enabled, appliedCount, stack, hist >>
  /\ UNCHANGED << panel, calls, store, merged, rules, listening, dom, observerPending,
                  ruleVer, cacheVer >>

\* new MutationObserver(() => XorcistReplacer.applyAll())
ObserverCallback ==
  /\ Idle /\ observerPending
  /\ observerPending' = FALSE
  /\ ApplyAll(enabled, rules, Event("observer"), "observer")
  /\ UNCHANGED << panel, calls, store, merged, rules, enabled, loads, listening, notifs, dom,
                  ruleVer, cacheVer >>

\* The APPLY_RULES message
ApplyRulesCommand ==
  /\ Idle /\ ~observerPending
  /\ ApplyAll(enabled, rules, Event("APPLY_RULES"), "command")
  /\ UNCHANGED << panel, calls, store, merged, rules, enabled, loads, listening, notifs, dom,
                  observerPending, ruleVer, cacheVer >>

(***************************************************************************)
(* XorcistDetector.  A text pattern of the detector is a row of literals   *)
(* with \s* between them and \b before the first; wordEnd = \b after the   *)
(* last, noExtension = the lookahead (?!\.\w), ignoreCase = the flag i.     *)
(***************************************************************************)
DetectorPattern(parts, wordEnd, noExtension, ignoreCase) ==
  [ parts |-> parts, wordEnd |-> wordEnd, noExtension |-> noExtension,
    ignoreCase |-> ignoreCase ]

\* patterns.text
DetectorTextPatterns ==
  << DetectorPattern(<< "X" >>, TRUE, TRUE, FALSE),
     DetectorPattern(<< "X.com" >>, TRUE, FALSE, TRUE),
     DetectorPattern(<< "Twitter", "X" >>, TRUE, FALSE, TRUE),
     DetectorPattern(<< "X", "(formerly", "Twitter)" >>, FALSE, FALSE, TRUE) >>

\* patterns.selectors: [aria-label*="X"], [alt*="X logo"], a[href*="x.com"]
DetectorSelectors == << "aria-label", "alt", "href" >>

DetectorSelectorMatches(e, selector) ==
  CASE selector = "aria-label" -> Includes(e.ariaLabel, "X")
    [] selector = "alt" -> Includes(e.alt, "X logo")
    [] OTHER -> e.tag = "a" /\ Includes(e.href, "x.com")

\* the literals parts, with \s* between them, match text from position i on,
\* and what follows the match is allowed by the end of pattern p
RECURSIVE PartsMatchAt(_, _, _, _)
PartsMatchAt(p, parts, text, i) ==
  LET lit == Head(parts)
      here == SubSeq(text, i, i + Len(lit) - 1)
      end == i + Len(lit)
  IN  /\ end - 1 <= Len(text)
      /\ IF p.ignoreCase THEN ToLowerCase(here) = ToLowerCase(lit) ELSE here = lit
      /\ IF Len(parts) = 1
         THEN /\ p.wordEnd => BoundaryAt(text, end)
              /\ p.noExtension =>
                   ~(end <= Len(text) /\ SubSeq(text, end, end) = "."
                                      /\ IsWordChar(text, end + 1))
         ELSE \E k \in 0..(Len(text) - end + 1) :
                 /\ \A j \in end..(end + k - 1) : Includes(WhiteSpace, SubSeq(text, j, j))
                 /\ PartsMatchAt(p, Tail(parts), text, end + k)

\* [...text.matchAll(pattern)].length > 0
DetectorPatternHits(p, text) ==
  \E i \in 1..Len(text) : BoundaryAt(text, i) /\ PartsMatchAt(p, p.parts, text, i)

\* findTextOccurrences: one entry << text node, pattern >> for each pattern
\* that matches an accepted text node
RECURSIVE TextOccurrencesOf(_, _)
TextOccurrencesOf(d, nodes) ==
  IF nodes = << >> THEN << >>
  ELSE LET t == Head(nodes)
           hits == SelectSeq([ k \in 1..Len(DetectorTextPatterns) |-> k ],
                             LAMBDA k : DetectorPatternHits(DetectorTextPatterns[k], d[t].text))
       IN  [ k \in 1..Len(hits) |-> << t, hits[k] >> ] \o TextOccurrencesOf(d, Tail(nodes))

FindTextOccurrences(d) ==
  TextOccurrencesOf(d, SelectSeq(Subtree(d, Body),
                                 LAMBDA t : d[t].kind = "text" /\ AcceptNode(d, t)))

\* findElementOccurrences: root.querySelectorAll of each selector, and
\* [...new Set(elements)]
RECURSIVE ElementOccurrencesOf(_, _, _)
ElementOccurrencesOf(d, selectors, found) ==
  IF selectors = << >> THEN found
  ELSE ElementOccurrencesOf(d, Tail(selectors),
         found \o SelectSeq(Tail(Subtree(d, Body)),
                            LAMBDA n : /\ IsElement(d, n)
                                       /\ DetectorSelectorMatches(d[n], Head(selectors))
                                       /\ n \notin Range(found)))

FindElementOccurrences(d) == ElementOccurrencesOf(d, DetectorSelectors, << >>)

\* A handler that would mark what it counts.
GetStatsMarking ==
  /\ Idle /\ ~observerPending
  /\ last' = [ Event("GET_STATS") EXCEPT
                 !.textCount = Len(FindTextOccurrences(dom)),
                 !.elementCount = Len(FindElementOccurrences(dom)) ]
  /\ dom' = [ n \in Node |->
               IF n \in Range(FindElementOccurrences(dom))
               THEN [ dom[n] EXCEPT !.processed = TRUE ] ELSE dom[n] ]
  /\ UNCHANGED << panel, calls, store, merged, rules, enabled, appliedCount, loads, listening, notifs,
                  observerPending, stack, ruleVer, cacheVer, hist >>

\* The reporter's GET_STATS handler: XorcistDetector.scan() and the response
\* with the two lengths.
GetStats ==
  /\ Idle /\ ~observerPending
  /\ last' = [ Event("GET_STATS") EXCEPT
                 !.textCount = Len(FindTextOccurrences(dom)),
                 !.elementCount = Len(FindElementOccurrences(dom)) ]
  /\ UNCHANGED << panel, calls, store, merged, rules, enabled, appliedCount, loads, listening, notifs,
                  dom, observerPending, stack, ruleVer, cacheVer, hist >>

\* The reporter's picker: a click on an element of the page synthesizes its
\* selector.
PickElement ==
  /\ Idle /\ ~observerPending
  /\ \E element \in { n \in Range(Subtree(dom, Body)) : IsElement(dom, n) /\ n # Body } :
       last' = [ Event("generateSelector") EXCEPT
                   !.node = element, !.selector = GenerateSelector(dom, element) ]
  /\ UNCHANGED << panel, calls, store, merged, rules, enabled, appliedCount, loads, listening, notifs,
                  dom, observerPending, stack, ruleVer, cacheVer, hist >>

\* The page without the toasts: toast.remove() for every .xorcist-toast; a
\* removed toast is referenced by nothing and its nodes are free again.
WithoutToasts(d) ==
  LET old == QuerySelectorAll(d, "div.xorcist-toast")
      gone == UNION { Range(Subtree(d, t)) : t \in Range(old) }
  IN  [ n \in Node |->
          IF n \in gone THEN FreeNode
          ELSE [ d[n] EXCEPT !.kids = SelectSeq(d[n].kids, LAMBDA c : c \notin Range(old)) ] ]

\* XorcistReporter.showToast: the old toasts are removed, a new one appended.
ShowToast ==
  /\ Idle /\ ~observerPending
  /\ \E d0 \in { WithoutToasts(dom) } :
       /\ Cardinality(FreeNodes(d0)) >= 2
       /\ LET a == FirstFree(d0)
              d1 == AppendElement(d0, Body, Element("div", "", "xorcist-toast", << >>))
          IN  dom' = SetInnerHTML(d1, a, "Saved")
  /\ observerPending' = TRUE
  /\ hist' = [ hist EXCEPT !.stable = FALSE, !.loopRuns = 0 ]
  /\ last' = NoEvent
  /\ UNCHANGED << panel, calls, store, merged, rules, enabled, appliedCount, loads, listening, notifs,
                  stack, ruleVer, cacheVer >>

\* showToast's timer: toast.remove()
ToastExpires ==
  /\ Idle /\ ~observerPending
  /\ QuerySelectorAll(dom, "div.xorcist-toast") # << >>
  /\ dom' = WithoutToasts(dom)
  /\ observerPending' = TRUE
  /\ hist' = [ hist EXCEPT !.stable = FALSE, !.loopRuns = 0 ]
  /\ last' = NoEvent
  /\ UNCHANGED << panel, calls, store, merged, rules, enabled, appliedCount, loads, listening, notifs,
                  stack, ruleVer, cacheVer >>

(***************************************************************************)
(* The writers of the store (popup, options page, background).  The        *)
(* browser queues an onChanged event for the keys whose value changed, for *)
(* a listener that is registered.  A write is taken between two handlers   *)
(* of the content script, which reads nothing of the store while it runs.  *)
(***************************************************************************)
Notify(keys, s, ver) ==
  IF listening
  THEN Append(notifs, [ keys |-> keys, enabled |-> s.enabled, ver |-> ver ])
  ELSE notifs

\* popup: chrome.storage.local.set({ enabled: enabledToggle.checked })
PopupSetEnabled ==
  /\ Idle /\ Len(notifs) < MaxNotifs
  /\ store' = [ store EXCEPT !.enabled = ~store.enabled ]
  /\ notifs' = Notify({"enabled"}, store', ruleVer)
  /\ last' = NoEvent
  /\ UNCHANGED << panel, calls, merged, rules, enabled, appliedCount, loads, listening, dom,
                  observerPending, stack, ruleVer, cacheVer, hist >>

\* options page, saveSettings: set({ githubToken, rulesRepo, autoApply }) with
\* a new token; none of these keys is a field of the modelled store.
SaveSettings ==
  /\ Idle /\ Len(notifs) < MaxNotifs
  /\ notifs' = Notify({"githubToken"}, store, ruleVer)
  /\ last' = NoEvent
  /\ UNCHANGED << panel, calls, store, merged, rules, enabled, appliedCount, loads, listening, dom,
                  observerPending, stack, ruleVer, cacheVer, hist >>

\* A toggleRule that would push the id on the overlay without looking for it.
ToggleRuleAlwaysPush(s, ruleId, on) ==
  IF \E i \in 1..Len(s.userRules) : s.userRules[i].id = ruleId
  THEN [ s EXCEPT !.userRules =
           [ i \in 1..Len(s.userRules) |->
               IF s.userRules[i].id = ruleId
                  /\ \A j \in 1..(i - 1) : s.userRules[j].id # ruleId
               THEN [ s.userRules[i] EXCEPT !.enabled = on ]
               ELSE s.userRules[i] ] ]
  ELSE IF on
       THEN [ s EXCEPT !.disabledRuleIds = SelectSeq(s.disabledRuleIds,
                                                     LAMBDA id : id # ruleId) ]
  ELSE [ s EXCEPT !.disabledRuleIds = Append(s.disabledRuleIds, ruleId) ]

\* background, toggleRule(ruleId, enabled): the store it writes
ToggleRuleStore(s, ruleId, on) ==
  IF \E i \in 1..Len(s.userRules) : s.userRules[i].id = ruleId
  THEN [ s EXCEPT !.userRules =
           [ i \in 1..Len(s.userRules) |->
               IF s.userRules[i].id = ruleId
                  /\ \A j \in 1..(i - 1) : s.userRules[j].id # ruleId
               THEN [ s.userRules[i] EXCEPT !.enabled = on ]
               ELSE s.userRules[i] ] ]
  ELSE IF on
       THEN [ s EXCEPT !.disabledRuleIds = SelectSeq(s.disabledRuleIds,
                                                     LAMBDA id : id # ruleId) ]
  ELSE IF ruleId \in Range(s.disabledRuleIds) THEN s
  ELSE [ s EXCEPT !.disabledRuleIds = Append(s.disabledRuleIds, ruleId) ]

\* background, toggleTag(tagId, enabled): the store it writes
ToggleTagStore(s, tagId, on) ==
  IF \E i \in 1..Len(s.tags) : s.tags[i].id = tagId
  THEN [ s EXCEPT !.tags =
           [ i \in 1..Len(s.tags) |->
               IF s.tags[i].id = tagId /\ \A j \in 1..(i - 1) : s.tags[j].id # tagId
               THEN [ s.tags[i] EXCEPT !.enabled = on ]
               ELSE s.tags[i] ] ]
  ELSE s

RuleIds(s) == { r.id : r \in Range(s.userRules) \cup Range(s.communityRules) }

ToggleRule ==
  /\ Idle /\ Len(notifs) < MaxNotifs /\ ruleVer < MaxRuleWrites
  /\ \E ruleId \in RuleIds(store), on \in BOOLEAN :
       /\ store' = ToggleRuleStore(store, ruleId, on)
       /\ store' # store
       /\ notifs' = Notify({ k \in {"userRules", "disabledRuleIds"} : store'[k] # store[k] },
                           store', ruleVer + 1)
  /\ ruleVer' = ruleVer + 1
  /\ last' = NoEvent
  /\ UNCHANGED << panel, calls, merged, rules, enabled, appliedCount, loads, listening, dom,
                  observerPending, stack, cacheVer, hist >>

ToggleTag ==
  /\ Idle /\ Len(notifs) < MaxNotifs /\ ruleVer < MaxRuleWrites
  /\ \E tagId \in { t.id : t \in Range(store.tags) }, on \in BOOLEAN :
       /\ store' = ToggleTagStore(store, tagId, on)
       /\ store' # store
       /\ notifs' = Notify({"tags"}, store', ruleVer + 1)
  /\ ruleVer' = ruleVer + 1
  /\ last' = NoEvent
  /\ UNCHANGED << panel, calls, merged, rules, enabled, appliedCount, loads, listening, dom,
                  observerPending, stack, cacheVer, hist >>

(***************************************************************************)
(* Engine specification: a page, a store, and the content script started   *)
(* on it (init has called loadRules; the observer is registered).          *)
(***************************************************************************)
\* body > h1#hdr > "X"
PageHeader ==
  [ EmptyPage EXCEPT ![Body].kids = << 1 >>, ![1] = Element("h1", "hdr", "", << 2 >>),
                     ![2] = TextNode("X") ]

\* body > p > "X ", span.ad > "ad", " X"
PageText ==
  [ EmptyPage EXCEPT ![Body].kids = << 1 >>, ![1] = Element("p", "", "", << 2, 3, 5 >>),
                     ![2] = TextNode("X "), ![3] = Element("span", "", "ad", << 4 >>),
                     ![4] = TextNode("ad"), ![5] = TextNode(" X") ]

\* body > div.ad > "ad", div.ad > "ad", p > "ad"
PageAds ==
  [ EmptyPage EXCEPT ![Body].kids = << 1, 3, 5 >>,
                     ![1] = Element("div", "", "ad", << 2 >>), ![2] = TextNode("ad"),
                     ![3] = Element("div", "", "ad", << 4 >>), ![4] = TextNode("ad"),
                     ![5] = Element("p", "", "", << 6 >>), ![6] = TextNode("ad") ]

\* body > div.ad > "ad", h1#hdr > "X", p > "X"
PageMixed ==
  [ EmptyPage EXCEPT ![Body].kids = << 1, 3, 5 >>,
                     ![1] = Element("div", "", "ad", << 2 >>), ![2] = TextNode("ad"),
                     ![3] = Element("h1", "hdr", "", << 4 >>), ![4] = TextNode("X"),
                     ![5] = Element("p", "", "", << 6 >>), ![6] = TextNode("X") ]

\* body > a[href='https://x.com/home'] > "Twitter X"
PageLink ==
  [ EmptyPage EXCEPT ![Body].kids = << 1 >>, ![1] = Link("https://x.com/home", << 2 >>),
                     ![2] = TextNode("Twitter X") ]

\* A rule with the selector and replacement the reporter builds for the
\* header: the replacement is the element's own markup with new text, so it
\* carries the id that the selector selects.
HeaderRule ==
  [ BlankRule EXCEPT !.id = "u1", !.hasTags = TRUE, !.tags = << "t1" >>,
                     !.hostname = Hostname, !.selector = "#hdr", !.action = "replace",
                     !.replacement = "<h1 id='hdr'>Y</h1>" ]

TextRule ==
  [ BlankRule EXCEPT !.id = "c1", !.source = "community", !.contentPattern = "X",
                     !.action = "replace", !.replacement = "Y" ]

HideRule ==
  [ BlankRule EXCEPT !.id = "c2", !.source = "community", !.hostname = "example",
                     !.contentPattern = "ad", !.action = "hide" ]

RemoveRule ==
  [ BlankRule EXCEPT !.id = "c3", !.source = "community", !.hostname = "*",
                     !.selector = "div.ad", !.contentPattern = "ad", !.action = "remove" ]

\* A selector that querySelectorAll rejects, with a content pattern that compiles.
BadSelectorRule ==
  [ BlankRule EXCEPT !.id = "u2", !.selector = "div.ad[", !.contentPattern = "ad",
                     !.action = "hide" ]

\* A content pattern that new RegExp rejects, with a selector that parses.
BadPatternRule ==
  [ BlankRule EXCEPT !.id = "u3", !.selector = "#hdr", !.contentPattern = "(",
                     !.action = "hide" ]

\* A hostname that is in the page's host only when letter case is ignored.
CaseHostRule ==
  [ BlankRule EXCEPT !.id = "c4", !.source = "community", !.hostname = "Example",
                     !.contentPattern = "X", !.action = "remove" ]

LinkRule ==
  [ BlankRule EXCEPT !.id = "c5", !.source = "community", !.contentPattern = "Twitter X",
                     !.action = "hide" ]

Scenarios ==
  { [ page |-> PageHeader, userRules |-> << HeaderRule >>, communityRules |-> << >> ],
    [ page |-> PageText, userRules |-> << >>, communityRules |-> << TextRule, HideRule >> ],
    [ page |-> PageAds, userRules |-> << >>, communityRules |-> << RemoveRule >> ],
    [ page |-> PageMixed, userRules |-> << BadSelectorRule, BadPatternRule >>,
      communityRules |-> << CaseHostRule >> ],
    [ page |-> PageLink, userRules |-> << >>, communityRules |-> << LinkRule >> ] }

Init ==
  /\ \E sc \in Scenarios :
       /\ dom = sc.page
       /\ store = [ userRules |-> sc.userRules, communityRules |-> sc.communityRules,
                    disabledRuleIds |-> << >>, tags |-> << Tag("t1", TRUE) >>,
                    enabled |-> TRUE ]
  /\ merged = NoReply
  /\ rules = << >> /\ enabled = TRUE /\ appliedCount = 0
  /\ loads = << Load(TRUE, 0) >> /\ listening = FALSE /\ notifs = << >>
  /\ observerPending = FALSE /\ stack = << >>
  /\ ruleVer = 0 /\ cacheVer = -1 /\ last = NoEvent /\ hist = NoHistory
  /\ calls = << >>
  /\ panel = NoPanel

\* The content script and the writers of the store.
Next ==
  \/ MarkElement \/ MutateElement \/ EditText \/ MarkTextParent
  \/ StoreServesGet \/ DeliverLoad \/ LoadFails \/ OnChanged \/ ObserverCallback
  \/ ApplyRulesCommand
  \/ PopupSetEnabled \/ SaveSettings \/ ToggleRule \/ ToggleTag

Spec == Init /\ [][Next]_vars

\* The content script on a page that the reporter's toasts change from
\* outside, with the store left alone.
NextPage ==
  \/ MarkElement \/ MutateElement \/ EditText \/ MarkTextParent
  \/ StoreServesGet \/ DeliverLoad \/ ObserverCallback
  \/ ApplyRulesCommand \/ GetStats \/ ShowToast \/ ToastExpires \/ PickElement

SpecPage == Init /\ [][NextPage]_vars

(***************************************************************************)
(* Resolver specification: the store is drawn from the states the          *)
(* background operations can leave it in, and the two resolvers read it.   *)
(***************************************************************************)
TagChoices == { <<>>, << Tag("t1", TRUE) >>, << Tag("t1", FALSE) >>,
                << Tag("t1", TRUE), Tag("t2", FALSE) >>,
                << Tag("t1", FALSE), Tag("t2", TRUE) >> }

UserTagSets == { [ hasTags |-> FALSE, tags |-> <<>> ], [ hasTags |-> TRUE, tags |-> <<>> ],
                 [ hasTags |-> TRUE, tags |-> << "t1" >> ],
                 [ hasTags |-> TRUE, tags |-> << "t1", "t2" >> ] }

UserRuleLists ==
  { [ i \in 1..Len(f) |->
        [ BlankRule EXCEPT !.id = UserId(i), !.enabled = f[i].enabled,
                           !.hasTags = f[i].tg.hasTags, !.tags = f[i].tg.tags ] ] :
      f \in SeqsUpTo([ enabled : BOOLEAN, tg : UserTagSets ], MaxUserRules) }

CommunityRuleLists ==
  { [ i \in 1..Len(f) |->
        [ BlankRule EXCEPT !.id = CommunityId(i), !.source = "community",
                           !.hasTags = f[i], !.tags = IF f[i] THEN << "t2" >> ELSE <<>> ] ] :
      f \in SeqsUpTo(BOOLEAN, MaxCommunityRules) }

DisabledIdLists == { <<>>, << "c1" >>, << "u1" >>, << "c1", "u1" >> }

InitResolve ==
  /\ store \in [ userRules : UserRuleLists, communityRules : CommunityRuleLists,
                 disabledRuleIds : DisabledIdLists, tags : TagChoices,
                 enabled : {TRUE} ]
  /\ merged = NoReply
  /\ rules = <<>> /\ enabled = TRUE /\ appliedCount = 0
  /\ loads = <<>> /\ listening = FALSE /\ notifs = <<>>
  /\ dom = EmptyPage /\ observerPending = FALSE /\ stack = <<>>
  /\ ruleVer = 0 /\ cacheVer = -1 /\ last = NoEvent /\ hist = NoHistory
  /\ calls = << >>
  /\ panel = NoPanel

\* A resolver that would clear the disabled ids it has used.
GetRulesClearing ==
  /\ merged' = [ done |-> TRUE, rules |-> GetMergedRules(store), again |-> merged.done ]
  /\ store' = [ store EXCEPT !.disabledRuleIds = << >> ]
  /\ last' = Event("GET_RULES")
  /\ UNCHANGED << panel, calls, ruleVer, rules, enabled, appliedCount, cacheVer, loads,
                  listening, notifs, dom, observerPending, stack, hist >>

\* GET_RULES: the background answers with getMergedRules().
GetRules ==
  /\ merged' = [ done |-> TRUE, rules |-> GetMergedRules(store), again |-> merged.done ]
  /\ last' = Event("GET_RULES")
  /\ UNCHANGED << panel, calls, store, ruleVer, rules, enabled, appliedCount, cacheVer, loads,
                  listening, notifs, dom, observerPending, stack, hist >>

\* The content script's loadRules, its storage read resolved at once.
ReadRules ==
  /\ cacheVer < ruleVer
  /\ rules' = LoadRules(store).rules
  /\ enabled' = LoadRules(store).enabled
  /\ cacheVer' = ruleVer
  /\ last' = Event("loadRules")
  /\ UNCHANGED << panel, calls, store, ruleVer, merged, appliedCount, loads, listening, notifs,
                  dom, observerPending, stack, hist >>

NextResolve == GetRules \/ ReadRules

SpecResolve == InitResolve /\ [][NextResolve]_vars

(***************************************************************************)
(* The popup's count of active rules, next to the two resolvers.           *)
(***************************************************************************)
\* rulesCount.textContent: the user rules that are not switched off and not
\* in the overlay, plus the community rules that are not in the overlay
PopupRulesCount(stored) ==
  LET disabled == Range(stored.disabledRuleIds)
      userRules == SelectSeq(stored.userRules,
                             LAMBDA r : r.enabled # FALSE /\ r.id \notin disabled)
      communityRules == SelectSeq(stored.communityRules, LAMBDA r : r.id \notin disabled)
  IN  Len(userRules) + Len(communityRules)

\* The popup is opened: DOMContentLoaded reads the store and shows the count
PopupOpens ==
  /\ last' = [ Event("popup") EXCEPT !.on = (store.enabled # FALSE),
                                     !.arg = << PopupRulesCount(store) >> ]
  /\ UNCHANGED << panel, calls, store, ruleVer, merged, rules, enabled, appliedCount, cacheVer,
                  loads, listening, notifs, dom, observerPending, stack, hist >>

\* Stores with a tagged or a switched-off user rule, a community rule, an
\* overlay and the registry's tag on or off
InitPopup ==
  /\ store \in [ userRules : { << [ BlankRule EXCEPT !.id = "u1", !.hasTags = TRUE,
                                                      !.tags = << "t1" >> ] >>,
                                << [ BlankRule EXCEPT !.id = "u1" ],
                                   [ BlankRule EXCEPT !.id = "u2", !.enabled = FALSE ] >> },
                  communityRules : { << >>, << [ BlankRule EXCEPT !.id = "c1",
                                                                  !.source = "community" ] >> },
                  disabledRuleIds : { << >>, << "c1" >>, << "u1" >> },
                  tags : { << Tag("t1", TRUE) >>, << Tag("t1", FALSE) >> },
                  enabled : {TRUE, FALSE} ]
  /\ merged = NoReply
  /\ rules = << >> /\ enabled = TRUE /\ appliedCount = 0
  /\ loads = << >> /\ listening = FALSE /\ notifs = << >>
  /\ dom = EmptyPage /\ observerPending = FALSE /\ stack = << >>
  /\ ruleVer = 0 /\ cacheVer = -1 /\ last = NoEvent /\ hist = NoHistory
  /\ calls = << >>
  /\ panel = NoPanel

NextPopup == PopupOpens \/ GetRules \/ ReadRules

SpecPopup == InitPopup /\ [][NextPopup]_vars

Effective(rule, s) ==
  /\ \A k \in 1..Len(s.disabledRuleIds) : s.disabledRuleIds[k] # rule.id
  /\ rule.enabled # FALSE
  /\ \A k \in 1..Len(rule.tags) :
       \A j \in 1..Len(s.tags) : s.tags[j].id = rule.tags[k] => s.tags[j].enabled # FALSE

StoredRules(s) == Range(s.userRules) \cup Range(s.communityRules)

EffectiveExactly(list, s) ==
  \A rule \in StoredRules(s) : (rule \in Range(list)) <=> Effective(rule, s)

L1C1Scenario(s) ==
  /\ Len(s.userRules) = 1 /\ s.userRules[1].tags = << "t1" >> /\ s.userRules[1].enabled
  /\ Len(s.communityRules) = 1 /\ ~s.communityRules[1].hasTags
  /\ s.disabledRuleIds = <<>>
  /\ \E j \in 1..Len(s.tags) : s.tags[j] = Tag("t1", FALSE)

(***************************************************************************)
(* C1  Effectiveness: a rule of either collection is in the resolved list  *)
(* iff its id is not in the disabled-id overlay, its enabled flag is not   *)
(* false and none of its tag ids is the id of a registry tag whose enabled *)
(* flag is false; absent or empty tags never exclude; local L1 tagged t1,  *)
(* community C1 and t1 disabled resolve to exactly [C1].                   *)
(***************************************************************************)
C1_Effectiveness ==
  /\ merged.done =>
       /\ EffectiveExactly(merged.rules, store)
       /\ L1C1Scenario(store) => merged.rules = store.communityRules
  /\ cacheVer = ruleVer =>
       /\ EffectiveExactly(rules, store)
       /\ L1C1Scenario(store) => rules = store.communityRules

C1_Witness ==
  /\ merged.done /\ cacheVer = ruleVer
  /\ L1C1Scenario(store)
  /\ merged.rules = << store.communityRules[1] >> /\ rules = merged.rules

PosIn(list, rule) == CHOOSE i \in 1..Len(list) : list[i] = rule

SourceOrdered(list, s) ==
  \A i, j \in 1..Len(list) :
    i < j =>
      /\ list[j].source = "user" => list[i].source = "user"
      /\ (list[i].source = "user" /\ list[j].source = "user") =>
           PosIn(s.userRules, list[i]) < PosIn(s.userRules, list[j])
      /\ (list[i].source = "community" /\ list[j].source = "community") =>
           PosIn(s.communityRules, list[i]) < PosIn(s.communityRules, list[j])

(***************************************************************************)
(* C2  Priority: in the resolved list every effective user rule precedes   *)
(* every effective community rule, and the rules of one source keep the    *)
(* relative order of their stored collection.                              *)
(***************************************************************************)
C2_Priority ==
  /\ merged.done => SourceOrdered(merged.rules, store)
  /\ cacheVer = ruleVer => SourceOrdered(rules, store)

C2_Witness ==
  /\ merged.done /\ cacheVer = ruleVer /\ rules = merged.rules
  /\ Len(rules) = 4
  /\ rules[1].source = "user" /\ rules[2].source = "user"
  /\ rules[3].source = "community" /\ rules[4].source = "community"

(***************************************************************************)
(* C3: when applyAll is called again after a run, with the same rule list  *)
(* and no change to the tree from outside in between, the second run marks *)
(* no node and makes no mutation (its applied-count is 0).                 *)
(***************************************************************************)
C3_SecondCallNoOp == (last.ran /\ last.repeat) => last.applied = 0

InHand(n) == stack # << >> /\ Top.ph = "elMid" /\ Top.cur = n

TextRuns(d, n) == { c \in Range(d[n].kids) : d[c].kind = "text" }

RemovedFromParent(d, e, n) ==
  LET p == Parent(d, n)
  IN  p # NoNode /\ e[p].kids = SelectSeq(d[p].kids, LAMBDA c : c # n)

(***************************************************************************)
(* C4: once a node carries the processed marker, the marker is never       *)
(* cleared, and no later rule application changes the node: it is not      *)
(* removed, hidden or content-replaced again, and no text run directly     *)
(* under it is edited.  The apply that set the marker is exempt while it   *)
(* is still in hand.                                                       *)
(***************************************************************************)
C4_ProcessedFinal ==
  [][ dom' # dom =>
        \A n \in Node :
          dom[n].processed =>
            /\ dom'[n].processed
            /\ (last'.op = "applyAll" /\ ~InHand(n)) =>
                 /\ dom'[n] = dom[n]
                 /\ \A c \in TextRuns(dom, n) : dom'[c].text = dom[c].text
                 /\ ~RemovedFromParent(dom, dom', n) ]_vars

\* A repeated run has returned and left alone a text run that still matches
\* the text rule, under a processed element.
C4_Witness ==
  /\ last.ran /\ last.repeat /\ TextRule \in Range(rules)
  /\ \E n \in Node :
       /\ Attached(dom, n) /\ dom[n].processed
       /\ \E c \in TextRuns(dom, n) : RegExpTest(TextRule.contentPattern, dom[c].text)

(***************************************************************************)
(* C5: with the rule list fixed and no change to the tree from outside,    *)
(* the runs that the observer re-triggers come to a run without mutation.  *)
(* Every mutating run marks an element that was not marked and a marker    *)
(* stays, so a loop over the elements the page had when it began makes at  *)
(* most that many mutating runs.                                           *)
(***************************************************************************)
C5_LoopEnds == hist.loopRuns <= hist.loopSize

(***************************************************************************)
(* C6: at most one applyAll run is in progress at any time; a change of a  *)
(* child list in the observed tree leaves a notification pending, and a    *)
(* pending notification goes away only when the observer callback starts a *)
(* run with no other run in progress.                                      *)
(***************************************************************************)
C6_Serialized ==
  [][ /\ Len(stack') <= 1
      /\ (dom' # dom /\ ChildListRecord(dom, dom')) => observerPending'
      /\ (observerPending /\ ~observerPending') =>
           (last'.op = "observer" /\ last'.called /\ stack = << >>) ]_vars

\* A run is in progress, between two applies, and the record of a child-list
\* change it has made waits for the observer callback.
C6_Witness ==
  /\ Len(stack) = 1 /\ Top.ph \in {"sel", "elems"} /\ observerPending
  /\ \E n \in Node : dom[n].processed /\ dom[n].mutated /\ ~Attached(dom, n)

(***************************************************************************)
(* C7: in every state, a node that a rule application has mutated carries  *)
(* the processed marker (the marker is set no later than the mutation).    *)
(***************************************************************************)
C7_MarkedWhenMutated == \A n \in Node : dom[n].mutated => dom[n].processed

(***************************************************************************)
(* C8: an applyAll call made while the engine's enabled flag is false      *)
(* changes neither the tree (markers included) nor the applied-count, and  *)
(* starts no run.                                                          *)
(***************************************************************************)
C8_DisabledNoOp ==
  [][ (last'.called /\ ~last'.enabledAtCall) =>
        (dom' = dom /\ appliedCount' = appliedCount /\ stack' = stack /\ hist' = hist) ]_vars

\* applyAll was called while disabled, after a run that had applied rules.
C8_Witness == last.called /\ ~last.enabledAtCall /\ appliedCount > 0

C9_RuleKeys == {"communityRules", "userRules", "disabledRuleIds", "tags"}

(***************************************************************************)
(* C9: handling a store change, the engine re-reads the store exactly when *)
(* communityRules, userRules, disabledRuleIds or tags changed; when        *)
(* enabled changed to true it calls applyAll, enabled; and when none of    *)
(* the five keys changed it leaves its cache, its enabled flag and the     *)
(* tree as they were and calls nothing.                                    *)
(***************************************************************************)
C9_StoreChange ==
  [][ last'.op = "onChanged" =>
        /\ (loads' # loads) <=> (last'.keys \cap C9_RuleKeys # {})
        /\ ("enabled" \in last'.keys /\ Head(notifs).enabled) =>
             (enabled' /\ last'.called /\ last'.enabledAtCall)
        /\ (last'.keys \cap (C9_RuleKeys \cup {"enabled"}) = {}) =>
             /\ rules' = rules /\ enabled' = enabled /\ cacheVer' = cacheVer
             /\ dom' = dom /\ stack' = stack /\ ~last'.called ]_vars

\* A change of the tags key alone has been handled and its re-read waits.
C9_Witness ==
  /\ last.op = "onChanged" /\ last.keys = {"tags"}
  /\ loads # << >> /\ loads[Len(loads)].needVer = last.needVer

(***************************************************************************)
(* C10: an applyAll call that answers a store change applies a rule list   *)
(* read from the store no earlier than that change.                        *)
(***************************************************************************)
C10_FreshList ==
  (last.op \in {"onChanged", "loadRules"} /\ last.called /\ last.enabledAtCall)
    => cacheVer >= last.needVer

(***************************************************************************)
(* The background's writers of the rule collections and the tag registry.  *)
(* Each handler reads the store, computes and writes; the store it writes  *)
(* is a function of the store it read and of the message.                  *)
(***************************************************************************)
\* `user-${Date.now()}-${Math.random()...}`: the ids the background generates,
\* each taken to be new among the ids in the store
GeneratedIds == << "user-1", "user-2", "user-3", "user-4", "user-5", "user-6" >>

\* the k-th generated id that is not in used
Fresh(used, k) == SelectSeq(GeneratedIds, LAMBDA id : id \notin used)[k]

\* saveLocalRule: { id: generated, ...ruleData, source: 'user', enabled: true }
NewUserRule(ruleData, generated) ==
  [ ruleData EXCEPT !.id = IF ruleData.id # "" THEN ruleData.id ELSE generated,
                    !.source = "user", !.enabled = TRUE ]

SaveLocalRuleStore(s, ruleData) ==
  [ s EXCEPT !.userRules = Append(@, NewUserRule(ruleData, Fresh(RuleIds(s), 1))) ]

\* saveBatchRules: one new rule for each element of rulesData
SaveBatchRulesStore(s, rulesData) ==
  [ s EXCEPT !.userRules =
      @ \o [ i \in 1..Len(rulesData) |-> NewUserRule(rulesData[i], Fresh(RuleIds(s), i)) ] ]

\* A value handed to importUserRules: an array of rule objects, or something
\* else.  A rule object of a file is the rule with its enabled field as the
\* file has it: "true", "false", or "absent".
ArrayOf(items) == [ isArray |-> TRUE, items |-> items ]
NotAnArray == [ isArray |-> FALSE, items |-> << >> ]
FileRule(rule, enabledField) == [ rule |-> rule, enabled |-> enabledField ]

\* A normalisation that would enable every imported rule.
ImportedRulesAllEnabled(s, file) ==
  [ i \in 1..Len(file) |->
      [ file[i].rule EXCEPT
          !.id = IF file[i].rule.id # "" THEN file[i].rule.id ELSE Fresh(RuleIds(s), i),
          !.source = "user", !.enabled = TRUE ] ]

\* importUserRules: the normalised rules of the file
ImportedRules(s, file) ==
  [ i \in 1..Len(file) |->
      [ file[i].rule EXCEPT
          !.id = IF file[i].rule.id # "" THEN file[i].rule.id ELSE Fresh(RuleIds(s), i),
          !.source = "user", !.enabled = (file[i].enabled # "false") ] ]

\* importUserRules, mode merge: the rules whose id is not among the ids that
\* userRules had when the import began
RECURSIVE MergeImported(_, _, _)
MergeImported(userRules, existingIds, imported) ==
  IF imported = << >> THEN userRules
  ELSE MergeImported(IF Head(imported).id \notin existingIds
                     THEN Append(userRules, Head(imported)) ELSE userRules,
                     existingIds, Tail(imported))

\* importUserRules: the reply's success field
ImportUserRulesOk(input) == input.isArray

\* importUserRules(rules, mode): the store it leaves
ImportUserRulesStore(s, input, mode) ==
  IF ~input.isArray THEN s
  ELSE [ s EXCEPT !.userRules =
           IF mode = "replace" THEN ImportedRules(s, input.items)
           ELSE MergeImported(s.userRules, { r.id : r \in Range(s.userRules) },
                              ImportedRules(s, input.items)) ]

\* An updateUserRule that would add the rule when no stored rule has its id.
UpdateUserRuleUpsert(s, updatedRule) ==
  IF \E i \in 1..Len(s.userRules) : s.userRules[i].id = updatedRule.id
  THEN [ s EXCEPT !.userRules =
           [ i \in 1..Len(s.userRules) |->
               IF s.userRules[i].id = updatedRule.id
               THEN [ s.userRules[i] EXCEPT !.action = updatedRule.action ]
               ELSE s.userRules[i] ] ]
  ELSE [ s EXCEPT !.userRules =
           Append(@, [ BlankRule EXCEPT !.id = updatedRule.id,
                                        !.action = updatedRule.action ]) ]

\* updateUserRule: { ...userRules[index], ...updatedRule } at the first index
\* with the id of updatedRule; the store is not written when there is none
UpdateUserRuleStore(s, updatedRule) ==
  [ s EXCEPT !.userRules =
      [ i \in 1..Len(s.userRules) |->
          IF s.userRules[i].id = updatedRule.id
             /\ \A j \in 1..(i - 1) : s.userRules[j].id # updatedRule.id
          THEN [ s.userRules[i] EXCEPT !.id = updatedRule.id, !.action = updatedRule.action ]
          ELSE s.userRules[i] ] ]

\* A sync that would add the fetched rules to the ones stored.
SyncCommunityRulesAppending(s, fetched) ==
  [ s EXCEPT !.communityRules =
      @ \o [ i \in 1..Len(fetched) |->
               [ fetched[i] EXCEPT !.source = "community", !.enabled = TRUE ] ] ]

\* syncCommunityRules: { ...decoded, source: 'community', enabled: true } for
\* each rule file fetched
SyncCommunityRulesStore(s, fetched) ==
  [ s EXCEPT !.communityRules =
      [ i \in 1..Len(fetched) |->
          [ fetched[i] EXCEPT !.source = "community", !.enabled = TRUE ] ] ]

\* A deleteTag that would drop the rules that carry the tag.
DeleteTagDroppingRules(s, tagId) ==
  [ s EXCEPT !.tags = SelectSeq(@, LAMBDA t : t.id # tagId),
             !.userRules = SelectSeq(@, LAMBDA r : tagId \notin Range(r.tags)) ]

\* deleteTag: the tags without tagId, and userRules with tagId taken out of
\* the tags of each rule that has it
DeleteTagStore(s, tagId) ==
  [ s EXCEPT !.tags = SelectSeq(@, LAMBDA t : t.id # tagId),
             !.userRules =
                [ i \in 1..Len(@) |->
                    IF @[i].hasTags /\ tagId \in Range(@[i].tags)
                    THEN [ @[i] EXCEPT !.tags = SelectSeq(@, LAMBDA t : t # tagId) ]
                    ELSE @[i] ] ]

\* What the picker, the batch panel, an import file and the rules repository hand in
PickedRules == { [ BlankRule EXCEPT !.selector = "#hdr" ] }

FileRules ==
  { FileRule([ BlankRule EXCEPT !.id = id, !.selector = "#hdr" ], "absent") : id \in {"", "u1"} }

RepoRules == { [ BlankRule EXCEPT !.id = id, !.contentPattern = "X" ] : id \in {"c1", "u1"} }

TagIds == {"t1"}

\* A step of the background: op names the handler, keys holds its argument
\* when that is a tag id.
Background(op, arg, s) ==
  /\ store' = s
  /\ last' = [ Event(op) EXCEPT !.keys = arg ]
  /\ UNCHANGED << panel, calls, merged, rules, enabled, appliedCount, loads, listening, notifs, dom,
                  observerPending, stack, ruleVer, cacheVer, hist >>

SaveLocalRule ==
  /\ Len(store.userRules) < MaxUserRules
  /\ \E ruleData \in PickedRules :
       Background("saveLocalRule", {}, SaveLocalRuleStore(store, ruleData))

SaveBatchRules ==
  \E rulesData \in SeqsUpTo(PickedRules, MaxUserRules) :
     /\ rulesData # << >>
     /\ Len(store.userRules) + Len(rulesData) <= MaxUserRules
     /\ Background("saveBatchRules", {}, SaveBatchRulesStore(store, rulesData))

ImportUserRules ==
  \E file \in SeqsUpTo(FileRules, MaxUserRules), mode \in {"merge", "replace"} :
     /\ mode = "merge" => Len(store.userRules) + Len(file) <= MaxUserRules
     /\ Background("importUserRules", {}, ImportUserRulesStore(store, ArrayOf(file), mode))

UpdateUserRule ==
  \E id \in { r.id : r \in Range(store.userRules) }, action \in {"remove"} :
     Background("updateUserRule", {},
                UpdateUserRuleStore(store, [ id |-> id, action |-> action ]))

SyncCommunityRules ==
  \E fetched \in SeqsUpTo(RepoRules, MaxCommunityRules) :
     Background("syncCommunityRules", {}, SyncCommunityRulesStore(store, fetched))

DeleteTag == \E tagId \in TagIds : Background("deleteTag", {tagId}, DeleteTagStore(store, tagId))

\* toggleRule, for the ids that the options page lists
ToggleRuleOnly ==
  \E ruleId \in RuleIds(store), on \in BOOLEAN :
     /\ store' = ToggleRuleStore(store, ruleId, on)
     /\ last' = [ Event("toggleRule") EXCEPT !.keys = {ruleId}, !.on = on ]
     /\ UNCHANGED << panel, calls, merged, rules, enabled, appliedCount, loads, listening, notifs, dom,
                     observerPending, stack, ruleVer, cacheVer, hist >>

\* The store before the first write: no rules, or the user's tagged rules.
InitStore ==
  /\ store \in [ userRules : { << >>,
                                << [ BlankRule EXCEPT !.id = "u1", !.hasTags = TRUE,
                                                      !.tags = << "t1", "t2" >> ],
                                   [ BlankRule EXCEPT !.id = "u2", !.hasTags = TRUE,
                                                      !.tags = << "t1" >> ] >> },
                  communityRules : { << >> }, disabledRuleIds : { << >> },
                  tags : { << Tag("t1", TRUE), Tag("t2", FALSE) >> }, enabled : {TRUE} ]
  /\ merged = NoReply
  /\ rules = << >> /\ enabled = TRUE /\ appliedCount = 0
  /\ loads = << >> /\ listening = FALSE /\ notifs = << >>
  /\ dom = EmptyPage /\ observerPending = FALSE /\ stack = << >>
  /\ ruleVer = 0 /\ cacheVer = -1 /\ last = NoEvent /\ hist = NoHistory
  /\ calls = << >>
  /\ panel = NoPanel

NextStore ==
  \/ SaveLocalRule \/ SaveBatchRules \/ ImportUserRules \/ UpdateUserRule
  \/ SyncCommunityRules \/ DeleteTag

SpecStore == InitStore /\ [][NextStore]_vars

\* The import of the options page and of other senders of IMPORT_USER_RULES:
\* files whose rules are new or carry the id of a stored rule, switched off
\* or not, and a value that is not an array.
ImportFileRules ==
  { FileRule([ BlankRule EXCEPT !.id = "", !.selector = "#new" ], "false"),
    FileRule([ BlankRule EXCEPT !.id = "u1", !.selector = "#new" ], "absent"),
    FileRule([ BlankRule EXCEPT !.id = "u2", !.selector = "#new" ], "true") }

ImportFile ==
  \E input \in { ArrayOf(file) : file \in SeqsUpTo(ImportFileRules, MaxUserRules) }
                 \cup { NotAnArray },
     mode \in {"merge", "replace"} :
     /\ store' = ImportUserRulesStore(store, input, mode)
     /\ Len(store'.userRules) <= MaxUserRules
     /\ last' = [ Event("importUserRules") EXCEPT
                   !.keys = {mode}, !.arg = input, !.ok = ImportUserRulesOk(input) ]
     /\ UNCHANGED << panel, calls, merged, rules, enabled, appliedCount, loads, listening, notifs, dom,
                     observerPending, stack, ruleVer, cacheVer, hist >>

InitImport ==
  /\ store \in [ userRules : { << >>,
                                << [ BlankRule EXCEPT !.id = "u1", !.selector = "#old",
                                                      !.enabled = FALSE ] >> },
                  communityRules : { << >> }, disabledRuleIds : { << >> },
                  tags : { << >> }, enabled : {TRUE} ]
  /\ merged = NoReply
  /\ rules = << >> /\ enabled = TRUE /\ appliedCount = 0
  /\ loads = << >> /\ listening = FALSE /\ notifs = << >>
  /\ dom = EmptyPage /\ observerPending = FALSE /\ stack = << >>
  /\ ruleVer = 0 /\ cacheVer = -1 /\ last = NoEvent /\ hist = NoHistory
  /\ calls = << >>
  /\ panel = NoPanel

NextImport == ImportFile

SpecImport == InitImport /\ [][NextImport]_vars

(***************************************************************************)
(* The sync on its own.  The store carries the keys of the sync status:    *)
(* lastSyncAttempt and lastSyncSuccess in minutes of the clock (0 = not    *)
(* set), syncError ("" = null).  The repository answers the listing or     *)
(* not, and each rule file of the listing decodes or fails.                *)
(***************************************************************************)
RateLimitMinutes == 5

ListingError == "GitHub API error: 404"

RepoFile(ok, rule) == [ ok |-> ok, rule |-> rule ]

RepoFiles ==
  { RepoFile(TRUE, [ BlankRule EXCEPT !.id = "c1", !.contentPattern = "X", !.enabled = FALSE ]),
    RepoFile(TRUE, [ BlankRule EXCEPT !.id = "c2", !.selector = "#hdr", !.source = "user" ]),
    RepoFile(FALSE, BlankRule) }

\* The rules of the files that were fetched and decoded, in the order of the listing
Decoded(files) ==
  LET fetched == SelectSeq(files, LAMBDA f : f.ok)
  IN  [ i \in 1..Len(fetched) |-> fetched[i].rule ]

\* syncCommunityRules: the early return of the rate limit
RateLimited(s, now) ==
  s.lastSyncAttempt # 0 /\ now - s.lastSyncAttempt < RateLimitMinutes

\* syncCommunityRules: the reply's success field
SyncOk(s, now, listing) == ~RateLimited(s, now) /\ listing

\* syncCommunityRules: the keys that its calls of storage.set write
SyncWrites(s, now, listing) ==
  IF RateLimited(s, now) THEN {}
  ELSE IF listing THEN {"lastSyncAttempt", "communityRules", "lastSyncSuccess", "syncError"}
  ELSE {"lastSyncAttempt", "syncError"}

\* syncCommunityRules at clock now: listing tells whether the listing of the
\* rules directory was fetched, files are the rule files it names
SyncCommunityRulesAt(s, now, listing, files) ==
  IF RateLimited(s, now) THEN s
  ELSE IF listing
       THEN [ SyncCommunityRulesStore(s, Decoded(files)) EXCEPT
                !.lastSyncAttempt = now, !.lastSyncSuccess = now, !.syncError = "" ]
  ELSE [ s EXCEPT !.lastSyncAttempt = now, !.syncError = ListingError ]

SyncNow ==
  \E now \in {1, 3, 7, 12}, listing \in BOOLEAN,
     files \in SeqsUpTo(RepoFiles, MaxCommunityRules) :
     /\ now >= store.lastSyncAttempt
     /\ ~listing => files = << >>
     /\ store' = SyncCommunityRulesAt(store, now, listing, files)
     /\ last' = [ Event("syncCommunityRules") EXCEPT
                   !.keys = SyncWrites(store, now, listing),
                   !.arg = Decoded(files), !.ok = SyncOk(store, now, listing) ]
     /\ UNCHANGED << panel, calls, merged, rules, enabled, appliedCount, loads, listening, notifs, dom,
                     observerPending, stack, ruleVer, cacheVer, hist >>

InitSync ==
  /\ store \in [ userRules : { << [ BlankRule EXCEPT !.id = "u1" ] >> },
                  communityRules : { << >>, << [ BlankRule EXCEPT !.id = "c9",
                                                                  !.source = "community" ] >> },
                  disabledRuleIds : { << "c1" >> },
                  tags : { << Tag("t1", TRUE) >> }, enabled : {TRUE},
                  lastSyncAttempt : {0}, lastSyncSuccess : {0}, syncError : {""} ]
  /\ merged = NoReply
  /\ rules = << >> /\ enabled = TRUE /\ appliedCount = 0
  /\ loads = << >> /\ listening = FALSE /\ notifs = << >>
  /\ dom = EmptyPage /\ observerPending = FALSE /\ stack = << >>
  /\ ruleVer = 0 /\ cacheVer = -1 /\ last = NoEvent /\ hist = NoHistory
  /\ calls = << >>
  /\ panel = NoPanel

NextSync == SyncNow

SpecSync == InitSync /\ [][NextSync]_vars

(***************************************************************************)
(* Syncs in flight.  syncCommunityRules is an async function: between its  *)
(* storage.get, its storage.set of lastSyncAttempt and its fetches the     *)
(* service worker runs other handlers, another sync among them.  A call is *)
(* at "get" (the read is pending), "stamp" (the set of lastSyncAttempt is  *)
(* pending), "fetching", or it has returned: "refused", "done", "failed".  *)
(* seen is the lastSyncAttempt it read and now its Date.now().             *)
(***************************************************************************)
SyncCall(via) ==
  [ op |-> "syncCommunityRules", via |-> via, pc |-> "get", seen |-> 0, now |-> 0 ]

\* The clock does not run backwards
ClockAt(now) ==
  /\ now >= store.lastSyncAttempt
  /\ \A i \in 1..Len(calls) : now >= calls[i].now

\* alarms.onAlarm 'syncRules', or the SYNC_RULES message: the call begins
\* and waits for storage.get
SyncRequested ==
  /\ Len(calls) < MaxCalls
  /\ \E via \in {"alarm", "message"} :
       /\ calls' = Append(calls, SyncCall(via))
       /\ last' = [ Event("syncCommunityRules") EXCEPT !.keys = {via} ]
  /\ UNCHANGED << panel, store, merged, rules, enabled, appliedCount, loads, listening, notifs,
                  dom, observerPending, stack, ruleVer, cacheVer, hist >>

\* storage.get resolves: the call reads Date.now(), tests the rate limit and
\* returns the error or calls storage.set({ lastSyncAttempt: now })
SyncReadsAttempt ==
  /\ \E i \in 1..Len(calls), now \in {1, 3, 7} :
       /\ calls[i].pc = "get"
       /\ ClockAt(now)
       /\ calls' = [ calls EXCEPT ![i] =
                       [ @ EXCEPT !.seen = store.lastSyncAttempt, !.now = now,
                                  !.pc = IF RateLimited(store, now) THEN "refused"
                                         ELSE "stamp" ] ]
       /\ last' = [ Event("syncCommunityRules") EXCEPT
                     !.ok = ~RateLimited(store, now), !.arg = << i >> ]
  /\ UNCHANGED << panel, store, merged, rules, enabled, appliedCount, loads, listening, notifs,
                  dom, observerPending, stack, ruleVer, cacheVer, hist >>

\* storage.set({ lastSyncAttempt: now }) resolves and the call starts to
\* fetch the listing
SyncStartsFetch ==
  /\ \E i \in 1..Len(calls) :
       /\ calls[i].pc = "stamp"
       /\ store' = [ store EXCEPT !.lastSyncAttempt = calls[i].now ]
       /\ calls' = [ calls EXCEPT ![i].pc = "fetching" ]
       /\ last' = [ Event("syncCommunityRules") EXCEPT
                     !.keys = {"lastSyncAttempt"}, !.arg = << i >> ]
  /\ UNCHANGED << panel, merged, rules, enabled, appliedCount, loads, listening, notifs,
                  dom, observerPending, stack, ruleVer, cacheVer, hist >>

\* The fetches end: the rules are stored, or the listing failed and the
\* catch stores syncError
SyncFetched ==
  /\ \E i \in 1..Len(calls), listing \in BOOLEAN :
       /\ calls[i].pc = "fetching"
       /\ store' =
            IF listing
            THEN [ SyncCommunityRulesStore(store, Decoded(<< RepoFile(TRUE, BlankRule) >>))
                     EXCEPT !.lastSyncSuccess = calls[i].now, !.syncError = "" ]
            ELSE [ store EXCEPT !.syncError = ListingError ]
       /\ calls' = [ calls EXCEPT ![i].pc = IF listing THEN "done" ELSE "failed" ]
       /\ last' = [ Event("syncCommunityRules") EXCEPT
                     !.keys = IF listing THEN {"communityRules", "lastSyncSuccess", "syncError"}
                              ELSE {"syncError"},
                     !.ok = listing, !.arg = << i >> ]
  /\ UNCHANGED << panel, merged, rules, enabled, appliedCount, loads, listening, notifs,
                  dom, observerPending, stack, ruleVer, cacheVer, hist >>

NextSyncCalls == SyncRequested \/ SyncReadsAttempt \/ SyncStartsFetch \/ SyncFetched

SpecSyncCalls == InitSync /\ [][NextSyncCalls]_vars

(***************************************************************************)
(* Migration.  The store of an installation may lack keys: hasRules,       *)
(* hasCommunityRules, hasUserRules and hasTags tell whether the key is     *)
(* there (an array, empty or not, is truthy); rules is the legacy list.    *)
(***************************************************************************)
DefaultTags ==
  << NamedTag("tag-social-media", "social-media", TRUE), NamedTag("tag-news", "news", TRUE),
     NamedTag("tag-ads", "ads", TRUE), NamedTag("tag-tech", "tech", TRUE) >>

\* migrateStorage: migratedRules
MigratedRules(legacy) ==
  [ i \in 1..Len(legacy) |-> [ legacy[i] EXCEPT !.source = "community", !.enabled = TRUE ] ]

\* migrateStorage: stored is the one read at its start, which the tests of
\* 'Ensure new fields exist' still look at after the first set; the tags
\* are read anew
MigrateStorageStore(stored) ==
  LET migrated ==
        IF stored.hasRules /\ ~stored.hasCommunityRules
        THEN [ stored EXCEPT !.communityRules = MigratedRules(stored.rules),
                             !.hasCommunityRules = TRUE,
                             !.userRules = << >>, !.hasUserRules = TRUE,
                             !.disabledRuleIds = << >>,
                             !.rules = << >>, !.hasRules = FALSE ]
        ELSE stored
      withCommunity ==
        IF ~stored.hasCommunityRules
        THEN [ migrated EXCEPT !.communityRules = << >>, !.hasCommunityRules = TRUE ]
        ELSE migrated
      withUser ==
        IF ~stored.hasUserRules
        THEN [ withCommunity EXCEPT !.userRules = << >>, !.hasUserRules = TRUE ]
        ELSE withCommunity
  IN  IF ~withUser.hasTags
      THEN [ withUser EXCEPT !.tags = DefaultTags, !.hasTags = TRUE ]
      ELSE withUser

\* runtime.onInstalled: await migrateStorage()
MigrateStorage ==
  /\ store' = MigrateStorageStore(store)
  /\ last' = [ Event("migrateStorage") EXCEPT !.on = (last.op = "migrateStorage") ]
  /\ UNCHANGED << panel, calls, merged, rules, enabled, appliedCount, loads, listening, notifs,
                  dom, observerPending, stack, ruleVer, cacheVer, hist >>

\* The stores that an update can find: with or without the legacy list, and
\* with or without each key of the new schema
InitMigrate ==
  /\ \E legacy \in SeqsUpTo({ [ BlankRule EXCEPT !.id = id, !.source = "", !.enabled = FALSE,
                                                  !.contentPattern = "X" ] : id \in {"c1", "c2"} },
                              MaxCommunityRules),
        hasRules, hasCommunityRules, hasUserRules, hasTags \in BOOLEAN,
        community \in { << >>, << [ BlankRule EXCEPT !.id = "c9", !.source = "community" ] >> },
        user \in { << >>, << [ BlankRule EXCEPT !.id = "u1" ] >> } :
       /\ ~hasRules => legacy = << >>
       /\ ~hasCommunityRules => community = << >>
       /\ ~hasUserRules => user = << >>
       /\ store = [ rules |-> legacy, hasRules |-> hasRules,
                    communityRules |-> community, hasCommunityRules |-> hasCommunityRules,
                    userRules |-> user, hasUserRules |-> hasUserRules,
                    disabledRuleIds |-> << >>,
                    tags |-> IF hasTags THEN << Tag("t1", TRUE) >> ELSE << >>,
                    hasTags |-> hasTags, enabled |-> TRUE ]
  /\ merged = NoReply
  /\ rules = << >> /\ enabled = TRUE /\ appliedCount = 0
  /\ loads = << >> /\ listening = FALSE /\ notifs = << >>
  /\ dom = EmptyPage /\ observerPending = FALSE /\ stack = << >>
  /\ ruleVer = 0 /\ cacheVer = -1 /\ last = NoEvent /\ hist = NoHistory
  /\ calls = << >>
  /\ panel = NoPanel

NextMigrate == MigrateStorage

SpecMigrate == InitMigrate /\ [][NextMigrate]_vars

\* The options page's rule switches: a user rule, two community rules, and
\* the overlay empty or holding the first community rule.
InitToggle ==
  /\ store \in [ userRules : { << [ BlankRule EXCEPT !.id = "u1" ] >> },
                  communityRules : { << [ BlankRule EXCEPT !.id = "c1", !.source = "community" ],
                                        [ BlankRule EXCEPT !.id = "c2", !.source = "community" ] >> },
                  disabledRuleIds : { << >>, << "c1" >> },
                  tags : { << >> }, enabled : {TRUE} ]
  /\ merged = NoReply
  /\ rules = << >> /\ enabled = TRUE /\ appliedCount = 0
  /\ loads = << >> /\ listening = FALSE /\ notifs = << >>
  /\ dom = EmptyPage /\ observerPending = FALSE /\ stack = << >>
  /\ ruleVer = 0 /\ cacheVer = -1 /\ last = NoEvent /\ hist = NoHistory
  /\ calls = << >>
  /\ panel = NoPanel

NextToggle == ToggleRuleOnly \/ GetRules

SpecToggle == InitToggle /\ [][NextToggle]_vars

(***************************************************************************)
(* The background's tag registry.                                          *)
(***************************************************************************)
MinTagNameLen == 2
MaxTagNameLen == 30

\* /^[\w\s-]+$/.test(name)
TagNameChars == WordChars \o WhiteSpace \o "-"

TagNamePattern(name) ==
  name # "" /\ \A i \in 1..Len(name) : Includes(TagNameChars, SubSeq(name, i, i))

\* name.toLowerCase().replace(/\s+/g, '-'): every run of whitespace becomes one '-'
RECURSIVE Slug(_)
Slug(name) ==
  IF name = "" THEN ""
  ELSE IF Includes(WhiteSpace, SubSeq(name, 1, 1))
       THEN "-" \o Slug(TrimStart(name))
  ELSE LowerChar(SubSeq(name, 1, 1)) \o Slug(SubSeq(name, 2, Len(name)))

\* Date.now() at the creation of the n-th tag of the registry, in digits
Stamps == << "1", "2", "3", "4", "5" >>

\* createTag: the error it returns before it writes, "" when it writes
CreateTagError(s, name) ==
  IF name = "" \/ Len(name) < MinTagNameLen \/ Len(name) > MaxTagNameLen
  THEN "Tag name must be 2-30 characters"
  ELSE IF ~TagNamePattern(name)
       THEN "Tag name can only contain letters, numbers, spaces, and hyphens"
  ELSE IF \E k \in 1..Len(s.tags) : ToLowerCase(s.tags[k].name) = ToLowerCase(name)
       THEN "Tag already exists"
  ELSE ""

\* createTag: the store it leaves
CreateTagStore(s, name) ==
  IF CreateTagError(s, name) # "" THEN s
  ELSE [ s EXCEPT !.tags =
           Append(@, NamedTag("tag-" \o Slug(name) \o "-" \o Stamps[Len(s.tags) + 1],
                              Trim(name), TRUE)) ]

\* updateTag: tags[index] = { ...tags[index], ...updates } at the first
\* index with the id; updates.name is the field of updates that the model carries
UpdateTagStore(s, tagId, updates) ==
  [ s EXCEPT !.tags =
      [ i \in 1..Len(@) |->
          IF @[i].id = tagId /\ \A j \in 1..(i - 1) : @[j].id # tagId
          THEN [ @[i] EXCEPT !.name = updates.name ]
          ELSE @[i] ] ]

\* The names that the options page and other senders hand in
TagNames == { "ads", "Ads", "ads ", "a" }

CreateTag ==
  /\ Len(store.tags) < MaxTags
  /\ \E name \in TagNames : Background("createTag", {}, CreateTagStore(store, name))

UpdateTag ==
  \E tagId \in { t.id : t \in Range(store.tags) }, name \in {"ads", "x"} :
     Background("updateTag", {}, UpdateTagStore(store, tagId, [ name |-> name ]))

ToggleTagOnly ==
  \E tagId \in { t.id : t \in Range(store.tags) }, on \in BOOLEAN :
     Background("toggleTag", {}, ToggleTagStore(store, tagId, on))

\* The registry after installation, cut down to one of the default tags.
InitTags ==
  /\ store = [ userRules |-> << >>, communityRules |-> << >>, disabledRuleIds |-> << >>,
               tags |-> << NamedTag("t1", "news", TRUE) >>, enabled |-> TRUE ]
  /\ merged = NoReply
  /\ rules = << >> /\ enabled = TRUE /\ appliedCount = 0
  /\ loads = << >> /\ listening = FALSE /\ notifs = << >>
  /\ dom = EmptyPage /\ observerPending = FALSE /\ stack = << >>
  /\ ruleVer = 0 /\ cacheVer = -1 /\ last = NoEvent /\ hist = NoHistory
  /\ calls = << >>
  /\ panel = NoPanel

NextTags == CreateTag \/ UpdateTag \/ ToggleTagOnly \/ DeleteTag

SpecTags == InitTags /\ [][NextTags]_vars

(***************************************************************************)
(* Background operations on the rule store in flight.  A handler reads     *)
(* the keys it needs with one get and writes with one set; the messages    *)
(* of other senders are handled between the two.                           *)
(***************************************************************************)
\* addTagToRule: the error it returns before it writes, "" when there is none
AddTagToRuleError(s, ruleId, tagId) ==
  IF ~\E k \in 1..Len(s.tags) : s.tags[k].id = tagId THEN "Tag not found"
  ELSE IF ~\E k \in 1..Len(s.userRules) : s.userRules[k].id = ruleId THEN "Rule not found"
  ELSE ""

\* addTagToRule: the tag id is pushed on the first rule with the id unless
\* its tags include it
AddTagToRuleStore(s, ruleId, tagId) ==
  IF AddTagToRuleError(s, ruleId, tagId) # "" THEN s
  ELSE [ s EXCEPT !.userRules =
           [ i \in 1..Len(@) |->
               IF @[i].id = ruleId /\ (\A j \in 1..(i - 1) : @[j].id # ruleId)
                  /\ ~(@[i].hasTags /\ tagId \in Range(@[i].tags))
               THEN [ @[i] EXCEPT !.hasTags = TRUE,
                                  !.tags = IF s.userRules[i].hasTags
                                           THEN Append(@, tagId) ELSE << tagId >> ]
               ELSE @[i] ] ]

RemoveTagFromRuleError(s, ruleId) ==
  IF ~\E k \in 1..Len(s.userRules) : s.userRules[k].id = ruleId THEN "Rule not found"
  ELSE ""

\* removeTagFromRule: the tags of the first rule with the id, filtered
RemoveTagFromRuleStore(s, ruleId, tagId) ==
  [ s EXCEPT !.userRules =
      [ i \in 1..Len(@) |->
          IF @[i].id = ruleId /\ (\A j \in 1..(i - 1) : @[j].id # ruleId) /\ @[i].hasTags
          THEN [ @[i] EXCEPT !.tags = SelectSeq(@, LAMBDA t : t # tagId) ]
          ELSE @[i] ] ]

\* deleteUserRule: userRules.filter(r => r.id !== ruleId)
DeleteUserRuleStore(s, ruleId) ==
  [ s EXCEPT !.userRules = SelectSeq(@, LAMBDA r : r.id # ruleId) ]

\* A handler between its get and its set: stored is what the get returned,
\* generated the id that the handler makes up for a new rule.
StoreCall(op, ruleId, tagId, generated, stored) ==
  [ op |-> op, ruleId |-> ruleId, tagId |-> tagId, generated |-> generated,
    stored |-> stored, pc |-> "set", error |-> "" ]

\* What the handler returns before any set
CallError(c) ==
  IF c.op = "addTagToRule" THEN AddTagToRuleError(c.stored, c.ruleId, c.tagId)
  ELSE IF c.op = "removeTagFromRule" THEN RemoveTagFromRuleError(c.stored, c.ruleId)
  ELSE IF c.op = "createTag" THEN CreateTagError(c.stored, c.tagId)
  ELSE ""

\* The lists the handler has in hand when it calls set
CallResult(c) ==
  IF c.op = "saveLocalRule"
  THEN [ c.stored EXCEPT !.userRules =
           Append(@, NewUserRule([ BlankRule EXCEPT !.selector = "#picked" ], c.generated)) ]
  ELSE IF c.op = "deleteUserRule" THEN DeleteUserRuleStore(c.stored, c.ruleId)
  ELSE IF c.op = "addTagToRule" THEN AddTagToRuleStore(c.stored, c.ruleId, c.tagId)
  ELSE IF c.op = "removeTagFromRule" THEN RemoveTagFromRuleStore(c.stored, c.ruleId, c.tagId)
  ELSE IF c.op = "deleteTag" THEN DeleteTagStore(c.stored, c.tagId)
  ELSE CreateTagStore(c.stored, c.tagId)

\* The keys of the handler's set; none when it returns without one
CallKeys(c) ==
  IF CallError(c) # "" THEN {}
  ELSE IF c.op = "deleteTag" THEN {"tags", "userRules"}
  ELSE IF c.op = "createTag" THEN {"tags"}
  ELSE IF c.op \in {"addTagToRule", "removeTagFromRule"}
          /\ CallResult(c).userRules = c.stored.userRules
             /\ ~(c.op = "removeTagFromRule"
                  /\ \E r \in Range(c.stored.userRules) : r.id = c.ruleId /\ r.hasTags)
       THEN {}
  ELSE {"userRules"}

\* The message arrives and the handler's get is served.  A handler with
\* nothing to set returns at once.
CallReads ==
  /\ Len(calls) < MaxCalls
  /\ \E op \in {"saveLocalRule", "deleteUserRule", "addTagToRule", "removeTagFromRule",
                "deleteTag", "createTag"},
        ruleId \in {"u1", "u7"}, tagId \in {"t1", "t7", "ads"} :
       /\ op \in {"saveLocalRule", "deleteTag", "createTag"} => ruleId = "u1"
       /\ op \in {"saveLocalRule", "deleteUserRule"} => tagId = "t1"
       /\ op = "createTag" <=> tagId = "ads"
       /\ op = "deleteUserRule" => ruleId = "u1"
       /\ op = "deleteTag" => tagId = "t1"
       /\ \E c \in { StoreCall(op, ruleId, tagId, GeneratedIds[Len(calls) + 1], store) } :
            calls' = Append(calls, [ c EXCEPT !.error = CallError(c),
                                              !.pc = IF CallKeys(c) = {} THEN "done"
                                                     ELSE "set" ])
  /\ last' = Event("get")
  /\ UNCHANGED << panel, store, merged, rules, enabled, appliedCount, loads, listening, notifs, dom,
                  observerPending, stack, ruleVer, cacheVer, hist >>

\* The handler's set is applied and the handler returns success
CallWrites ==
  \E i \in 1..Len(calls) :
     /\ calls[i].pc = "set"
     /\ store' = [ k \in DOMAIN store |->
                     IF k \in CallKeys(calls[i]) THEN CallResult(calls[i])[k] ELSE store[k] ]
     /\ calls' = [ calls EXCEPT ![i].pc = "done" ]
     /\ last' = [ Event(calls[i].op) EXCEPT !.keys = CallKeys(calls[i]) ]
     /\ UNCHANGED << panel, merged, rules, enabled, appliedCount, loads, listening, notifs, dom,
                     observerPending, stack, ruleVer, cacheVer, hist >>

\* One user rule without tags or tagged with the registry's tag
InitStoreCalls ==
  /\ store \in [ userRules : { << [ BlankRule EXCEPT !.id = "u1" ] >>,
                                << [ BlankRule EXCEPT !.id = "u1", !.hasTags = TRUE,
                                                      !.tags = << "t1" >> ] >> },
                  communityRules : { << >> }, disabledRuleIds : { << >> },
                  tags : { << NamedTag("t1", "news", TRUE) >> }, enabled : {TRUE} ]
  /\ merged = NoReply
  /\ rules = << >> /\ enabled = TRUE /\ appliedCount = 0
  /\ loads = << >> /\ listening = FALSE /\ notifs = << >>
  /\ dom = EmptyPage /\ observerPending = FALSE /\ stack = << >>
  /\ ruleVer = 0 /\ cacheVer = -1 /\ last = NoEvent /\ hist = NoHistory
  /\ calls = << >>
  /\ panel = NoPanel

NextStoreCalls == CallReads \/ CallWrites

SpecStoreCalls == InitStoreCalls /\ [][NextStoreCalls]_vars

(***************************************************************************)
(* The handlers that address a rule or a tag by its id, and saveBatchRules *)
(* with what a sender may hand in.  Each runs from its get to its return.  *)
(***************************************************************************)
UpdateUserRuleError(s, updatedRule) ==
  IF ~\E k \in 1..Len(s.userRules) : s.userRules[k].id = updatedRule.id
  THEN "Rule not found" ELSE ""

\* updateTag and toggleTag: tags.findIndex(t => t.id === tagId) === -1
TagError(s, tagId) ==
  IF ~\E k \in 1..Len(s.tags) : s.tags[k].id = tagId THEN "Tag not found" ELSE ""

\* saveBatchRules: !Array.isArray(rulesData) || rulesData.length === 0
SaveBatchRulesError(input) ==
  IF ~input.isArray \/ Len(input.items) = 0 THEN "No rules to save" ELSE ""

\* The handler, sent a message with the fields first and second, returns
\* { success: error = "", error } and leaves the store s
Handled(op, first, second, error, s) ==
  /\ store' = s
  /\ last' = [ Event(op) EXCEPT !.arg = << first, second, error >>, !.ok = (error = "") ]
  /\ UNCHANGED << panel, calls, merged, rules, enabled, appliedCount, loads, listening,
                  notifs, dom, observerPending, stack, ruleVer, cacheVer, hist >>

UpdateUserRuleAt ==
  \E id \in {"u1", "u7"}, action \in {"remove", "hide"} :
     \E updatedRule \in { [ id |-> id, action |-> action ] } :
        Handled("updateUserRule", id, "", UpdateUserRuleError(store, updatedRule),
                UpdateUserRuleStore(store, updatedRule))

AddTagToRuleAt ==
  \E ruleId \in {"u1", "u7"}, tagId \in {"t1", "t7"} :
     Handled("addTagToRule", ruleId, tagId, AddTagToRuleError(store, ruleId, tagId),
             AddTagToRuleStore(store, ruleId, tagId))

RemoveTagFromRuleAt ==
  \E ruleId \in {"u1", "u7"}, tagId \in {"t1", "t7"} :
     Handled("removeTagFromRule", ruleId, tagId, RemoveTagFromRuleError(store, ruleId),
             RemoveTagFromRuleStore(store, ruleId, tagId))

UpdateTagAt ==
  \E tagId \in {"t1", "t7"}, name \in {"ads", "x"} :
     Handled("updateTag", "", tagId, TagError(store, tagId),
             UpdateTagStore(store, tagId, [ name |-> name ]))

ToggleTagAt ==
  \E tagId \in {"t1", "t7"}, on \in BOOLEAN :
     Handled("toggleTag", "", tagId, TagError(store, tagId), ToggleTagStore(store, tagId, on))

\* SAVE_BATCH_RULES with something that is not an array, with no rules, or
\* with the panel's rules
SaveBatchRulesOf ==
  \E input \in { NotAnArray } \cup { ArrayOf(rs) : rs \in SeqsUpTo(PickedRules, 1) } :
     /\ Len(store.userRules) + Len(input.items) <= MaxUserRules
     /\ Handled("saveBatchRules", IF input.isArray THEN "array" ELSE "other",
                IF input.items = << >> THEN "empty" ELSE "rules",
                SaveBatchRulesError(input),
                IF SaveBatchRulesError(input) # "" THEN store
                ELSE SaveBatchRulesStore(store, input.items))

InitAddressed ==
  /\ store \in [ userRules : { << [ BlankRule EXCEPT !.id = "u1" ] >>,
                                << [ BlankRule EXCEPT !.id = "u1", !.hasTags = TRUE,
                                                      !.tags = << "t1" >> ] >> },
                  communityRules : { << >> }, disabledRuleIds : { << >> },
                  tags : { << NamedTag("t1", "news", TRUE) >> }, enabled : {TRUE} ]
  /\ merged = NoReply
  /\ rules = << >> /\ enabled = TRUE /\ appliedCount = 0
  /\ loads = << >> /\ listening = FALSE /\ notifs = << >>
  /\ dom = EmptyPage /\ observerPending = FALSE /\ stack = << >>
  /\ ruleVer = 0 /\ cacheVer = -1 /\ last = NoEvent /\ hist = NoHistory
  /\ calls = << >>
  /\ panel = NoPanel

NextAddressed ==
  \/ UpdateUserRuleAt \/ AddTagToRuleAt \/ RemoveTagFromRuleAt
  \/ UpdateTagAt \/ ToggleTagAt \/ SaveBatchRulesOf

SpecAddressed == InitAddressed /\ [][NextAddressed]_vars

(***************************************************************************)
(* The batch panel.  saveAll sends the pending rules to the background and *)
(* awaits the answer; the picker and the panel's buttons go on working in  *)
(* the meantime.                                                           *)
(***************************************************************************)
\* `temp-${Date.now()}-${Math.random()...}`: the k-th temporary id
TempId(k) == "temp-" \o ToString(k)

\* The temporary ids of the rules that are pending or on their way
TempIdsInUse ==
  { r.tempId : r \in Range(panel.pendingRules) }
    \cup UNION { { r.tempId : r \in Range(calls[i].sent) } : i \in 1..Len(calls) }

\* render(): saveBtn.disabled = this.pendingRules.length === 0
Render(pending) == [ pendingRules |-> pending, saveDisabled |-> pending = << >> ]

\* addRule(rule): push { ...rule, tempId } and render
AddRulePanel(p, rule, tempId) ==
  Render(Append(p.pendingRules, [ tempId |-> tempId, rule |-> rule ]))

PanelAddRule ==
  /\ Len(panel.pendingRules) < MaxUserRules
  /\ \E selector \in {"#picked"} :
     \E k \in { CHOOSE n \in 1..(Cardinality(TempIdsInUse) + 1) : TempId(n) \notin TempIdsInUse } :
        /\ panel' = AddRulePanel(panel, [ BlankRule EXCEPT !.selector = selector ], TempId(k))
        /\ last' = [ Event("addRule") EXCEPT !.keys = { TempId(k) } ]
  /\ UNCHANGED << calls, store, merged, rules, enabled, appliedCount, loads, listening, notifs,
                  dom, observerPending, stack, ruleVer, cacheVer, hist >>

\* removeRule(tempId), from the remove button of a listed rule
PanelRemoveRule ==
  /\ \E r \in Range(panel.pendingRules) :
        /\ panel' = Render(SelectSeq(panel.pendingRules, LAMBDA q : q.tempId # r.tempId))
        /\ last' = [ Event("removeRule") EXCEPT !.keys = { r.tempId } ]
  /\ UNCHANGED << calls, store, merged, rules, enabled, appliedCount, loads, listening, notifs,
                  dom, observerPending, stack, ruleVer, cacheVer, hist >>

\* saveAll up to its await: the button is disabled and SAVE_BATCH_RULES is
\* sent with the pending rules less their tempId.  sent keeps what was
\* pending when the message was made.
SaveAllSends ==
  /\ ~panel.saveDisabled /\ panel.pendingRules # << >>
  /\ Len(calls) < MaxCalls
  /\ calls' = Append(calls, [ op |-> "saveAll", sent |-> panel.pendingRules,
                               rules |-> [ i \in 1..Len(panel.pendingRules) |->
                                             panel.pendingRules[i].rule ] ])
  /\ panel' = [ panel EXCEPT !.saveDisabled = TRUE ]
  /\ last' = Event("saveAll")
  /\ UNCHANGED << store, merged, rules, enabled, appliedCount, loads, listening, notifs,
                  dom, observerPending, stack, ruleVer, cacheVer, hist >>

\* The background has answered { success: true, ... }: saveBatchRules has
\* written the rules, and saveAll clears pendingRules, renders and hides.
SaveAllSucceeds ==
  /\ calls # << >>
  /\ Len(store.userRules) + Len(Head(calls).rules) <= MaxUserRules
  /\ store' = SaveBatchRulesStore(store, Head(calls).rules)
  /\ panel' = Render(<< >>)
  /\ calls' = Tail(calls)
  /\ last' = [ Event("saveAll") EXCEPT !.called = TRUE, !.ok = TRUE ]
  /\ UNCHANGED << merged, rules, enabled, appliedCount, loads, listening, notifs,
                  dom, observerPending, stack, ruleVer, cacheVer, hist >>

\* The background has answered { success: false, error } (its storage call
\* threw), or sendMessage has thrown: the button is enabled again.
SaveAllFails ==
  /\ calls # << >>
  /\ panel' = [ panel EXCEPT !.saveDisabled = FALSE ]
  /\ calls' = Tail(calls)
  /\ last' = [ Event("saveAll") EXCEPT !.called = TRUE, !.ok = FALSE ]
  /\ UNCHANGED << store, merged, rules, enabled, appliedCount, loads, listening, notifs,
                  dom, observerPending, stack, ruleVer, cacheVer, hist >>

InitBatch ==
  /\ store = [ userRules |-> << >>, communityRules |-> << >>, disabledRuleIds |-> << >>,
               tags |-> << >>, enabled |-> TRUE ]
  /\ merged = NoReply
  /\ rules = << >> /\ enabled = TRUE /\ appliedCount = 0
  /\ loads = << >> /\ listening = FALSE /\ notifs = << >>
  /\ dom = EmptyPage /\ observerPending = FALSE /\ stack = << >>
  /\ ruleVer = 0 /\ cacheVer = -1 /\ last = NoEvent /\ hist = NoHistory
  /\ calls = << >>
  /\ panel = NoPanel

NextBatch == PanelAddRule \/ PanelRemoveRule \/ SaveAllSends \/ SaveAllSucceeds \/ SaveAllFails

SpecBatch == InitBatch /\ [][NextBatch]_vars

(***************************************************************************)
(* The remove heuristic on its own: one element, with or without a child   *)
(* element, whose text is a match of the pattern followed by filler, under *)
(* one remove or hide rule that the engine has loaded.                     *)
(***************************************************************************)
MatchPatterns ==
  { "ad", "adv", "advt", "\\bX\\b", "advertisement-banner", "advertisement-banners" }

\* Text lengths on both sides of the thresholds that a pattern meets
TextLens(pattern) ==
  CASE pattern = "ad" -> { 2, 4, 5, 99, 100, 500 }
    [] pattern = "adv" -> { 3, 5, 6, 100 }
    [] pattern = "advt" -> { 4, 12, 13 }
    [] pattern = "\\bX\\b" -> { 1, 15, 16 }
    [] pattern = "advertisement-banner" -> { 20, 60, 61, 100 }
    [] OTHER -> { 21, 64, 99, 100 }

Fillers == { "z", ".", " " }

RECURSIVE Repeat(_, _)
Repeat(c, n) ==
  IF n <= 0 THEN "" ELSE IF n = 1 THEN c
  ELSE Repeat(c, n \div 2) \o Repeat(c, n - n \div 2)

Sentence == "Example text about X philosophy"

MatchTexts(pattern) ==
  { Literal(pattern) \o Repeat(c, n - Len(Literal(pattern))) :
      c \in Fillers, n \in TextLens(pattern) } \cup { Sentence }

\* body > el > text, and an empty <b> after the text when the element is a container
MatchPage(tag, text, container) ==
  [ EmptyPage EXCEPT ![Body].kids = << 1 >>,
                     ![1] = Element(tag, "", "", IF container THEN << 2, 3 >> ELSE << 2 >>),
                     ![2] = TextNode(text),
                     ![3] = IF container THEN Element("b", "", "", << >>) ELSE FreeNode ]

MatchRule(pattern, action) ==
  [ BlankRule EXCEPT !.id = "c1", !.source = "community", !.contentPattern = pattern,
                     !.action = action ]

InitMatch ==
  /\ \E pattern \in MatchPatterns, action \in {"remove", "hide"} :
       /\ rules = << MatchRule(pattern, action) >>
       /\ \E text \in MatchTexts(pattern), container \in BOOLEAN :
            dom = MatchPage(IF text = Sentence THEN "p" ELSE "span", text, container)
  /\ store = [ userRules |-> << >>, communityRules |-> rules, disabledRuleIds |-> << >>,
               tags |-> << >>, enabled |-> TRUE ]
  /\ merged = NoReply /\ enabled = TRUE /\ appliedCount = 0
  /\ loads = << >> /\ listening = TRUE /\ notifs = << >>
  /\ observerPending = FALSE /\ stack = << >>
  /\ ruleVer = 0 /\ cacheVer = 0 /\ last = NoEvent /\ hist = NoHistory
  /\ calls = << >>
  /\ panel = NoPanel

NextMatch == ApplyRulesCommand \/ MarkElement \/ MutateElement

SpecMatch == InitMatch /\ [][NextMatch]_vars

(***************************************************************************)
(* The engine on its own: a page and a resolved list that it has loaded,   *)
(* applied on command.  The lists hold at most one local rule and one      *)
(* community rule, each with one way of matching unless said otherwise.    *)
(***************************************************************************)
\* body > div.ad > (text of 120 characters, b > "ad")
PageBanner ==
  [ EmptyPage EXCEPT ![Body].kids = << 1 >>,
                     ![1] = Element("div", "", "ad", << 2, 3 >>),
                     ![2] = TextNode(Repeat("z", 120)),
                     ![3] = Element("b", "", "", << 4 >>), ![4] = TextNode("ad") ]

ApplyPages == { PageHeader, PageText, PageAds, PageBanner }

LocalRule(selector, pattern, action, replacement) ==
  [ BlankRule EXCEPT !.id = "u1", !.selector = selector, !.contentPattern = pattern,
                     !.action = action, !.replacement = replacement ]

CommunityRule(selector, pattern, action, replacement) ==
  [ LocalRule(selector, pattern, action, replacement) EXCEPT
      !.id = "c1", !.source = "community" ]

ApplyLists ==
  { << LocalRule("div.ad", "", "hide", ""), CommunityRule("", "ad", "remove", "") >>,
    << LocalRule("", "ad", "hide", ""), CommunityRule("div.ad", "", "remove", "") >>,
    << LocalRule("", "X", "replace", "Y"), CommunityRule("p", "", "hide", "") >>,
    << CommunityRule("", "X", "replace", "Y") >>,
    << CommunityRule("div.ad", "X", "remove", "") >>,
    << CommunityRule("div.ad", "X", "hide", "") >>,
    << CommunityRule("#hdr", "", "replace", "") >>,
    << CommunityRule("#hdr", "", "replace", "Y") >> }

InitApply ==
  /\ dom \in ApplyPages
  /\ rules \in ApplyLists
  /\ store = [ userRules |-> SelectSeq(rules, LAMBDA r : r.source = "user"),
               communityRules |-> SelectSeq(rules, LAMBDA r : r.source = "community"),
               disabledRuleIds |-> << >>, tags |-> << >>, enabled |-> TRUE ]
  /\ merged = NoReply /\ enabled = TRUE /\ appliedCount = 0
  /\ loads = << >> /\ listening = TRUE /\ notifs = << >>
  /\ observerPending = FALSE /\ stack = << >>
  /\ ruleVer = 0 /\ cacheVer = 0 /\ last = NoEvent /\ hist = NoHistory
  /\ calls = << >>
  /\ panel = NoPanel

NextApply ==
  ApplyRulesCommand \/ MarkElement \/ MutateElement \/ EditText \/ MarkTextParent

SpecApply == InitApply /\ [][NextApply]_vars

(***************************************************************************)
(* C11: when a store read fails, the cached rule list and the tree stay as *)
(* they are and the engine goes on listening for store changes, so that    *)
(* the next change notification resolves and applies afresh; also when the *)
(* read that fails is the one of init.                                     *)
(***************************************************************************)
C11_RetriesAfterFailure == last.op = "loadFailed" => listening

\* hostname.includes(h), stated on the characters of the host
HostContains(h) ==
  \E i \in 1..(Len(Hostname) + 1) :
     i + Len(h) - 1 <= Len(Hostname) /\ SubSeq(Hostname, i, i + Len(h) - 1) = h

HostOk(rule) == rule.hostname = "" \/ rule.hostname = "*" \/ HostContains(rule.hostname)

\* The strategy through which the running activation is changing the page
StrategyInHand ==
  IF Top.ph = "sel" \/ (Top.ph = "elMid" /\ Top.ret = "sel") THEN "selector" ELSE "content"

StrategyValid(rule, strategy) ==
  IF strategy = "selector" THEN rule.selector # "" /\ SelectorValid(rule.selector)
  ELSE rule.contentPattern # "" /\ RegExpValid(rule.contentPattern)

\* The strategies a run over the list rs has to carry out: those of the
\* rules of this host that are present and valid, selector before content.
RECURSIVE StrategiesDue(_)
StrategiesDue(rs) ==
  IF rs = << >> THEN << >>
  ELSE LET r == Head(rs)
           own == (IF StrategyValid(r, "selector") THEN << << r.id, "selector" >> >> ELSE << >>)
                  \o (IF StrategyValid(r, "content") THEN << << r.id, "content" >> >> ELSE << >>)
       IN  (IF HostOk(r) THEN own ELSE << >>) \o StrategiesDue(Tail(rs))

(***************************************************************************)
(* C12: a rule whose selector or content pattern is invalid never stops    *)
(* applyAll: no change of the page is made through the invalid strategy,   *)
(* the rule's other strategy is carried out when it is present and valid,  *)
(* and so is every strategy of every other applicable rule of the run.     *)
(***************************************************************************)
C12_InvalidStrategySkipped ==
  [][ /\ (stack # << >> /\ dom' # dom) => StrategyValid(Head(Top.rq), StrategyInHand)
      /\ last'.ran => hist'.tried = StrategiesDue(hist'.ranRules) ]_vars

HasInvalidStrategy(r) ==
  \/ r.selector # "" /\ ~SelectorValid(r.selector)
  \/ r.contentPattern # "" /\ ~RegExpValid(r.contentPattern)

\* A run over both rules with an invalid strategy has returned, having
\* hidden the div through the pattern of the one and then the header
\* through the selector of the other.
C12_Witness ==
  /\ last.ran /\ stack = << >>
  /\ Len(SelectSeq(hist.ranRules, HasInvalidStrategy)) = 2
  /\ dom[1].hidden /\ dom[3].hidden

(***************************************************************************)
(* C13: applyAll applies a rule only when the rule has no hostname, or the *)
(* hostname '*', or a hostname that is a case-sensitive substring of the   *)
(* page's host; a rule of another host changes nothing and marks nothing.  *)
(***************************************************************************)
C13_HostFilter ==
  [][ /\ (stack # << >> /\ dom' # dom) => HostOk(Head(Top.rq))
      /\ last'.ran =>
            \A i \in 1..Len(hist'.tried) :
               \E j \in 1..Len(hist'.ranRules) :
                  hist'.ranRules[j].id = hist'.tried[i][1] /\ HostOk(hist'.ranRules[j]) ]_vars

\* A run over a list with a rule of another host has returned and has
\* changed the page, with the text that rule's pattern matches still there.
C13_Witness ==
  /\ last.ran /\ last.applied > 0
  /\ \E j \in 1..Len(hist.ranRules) : ~HostOk(hist.ranRules[j])
  /\ dom = [ PageMixed EXCEPT ![1].processed = TRUE, ![1].hidden = TRUE, ![1].mutated = TRUE,
                              ![3].processed = TRUE, ![3].hidden = TRUE, ![3].mutated = TRUE ]

\* The number of characters of s that are neither whitespace nor punctuation
StrippedLen(s) ==
  Cardinality({ i \in 1..Len(s) :
                  \A k \in 1..Len(Punctuation) : SubSeq(Punctuation, k, k) # SubSeq(s, i, i) })

\* The element under test, its trimmed text, the pattern's length
Subject == Head(MatchPage("span", "", FALSE)[Body].kids)
SubjectText == Trim(dom[2].text)
PatternLen == Len(rules[1].contentPattern)
Acted == dom[Subject].processed /\ dom[Subject].mutated
IsContainer == dom[3] # FreeNode

TierAllows ==
  IF PatternLen <= 3 THEN StrippedLen(SubjectText) <= PatternLen + 2
  ELSE IF PatternLen <= 20 THEN Len(SubjectText) <= 3 * PatternLen
  ELSE TRUE

C15_NoLargeContainer ==
  (last.ran /\ Acted) => (~IsContainer \/ Len(SubjectText) < 100)

\* The run has returned and left alone a container of 100 characters that
\* the pattern matches and the tier allows.
C15_Witness ==
  /\ last.ran /\ ~Acted /\ IsContainer /\ Len(SubjectText) = 100
  /\ TierAllows /\ RegExpTest(rules[1].contentPattern, SubjectText)

(***************************************************************************)
(* C16: the diagnostics query (GET_STATS, XorcistDetector.scan) changes    *)
(* nothing: the tree with its processed markers, the engine's              *)
(* applied-count and cached rule list, and the store stay as they are.     *)
(***************************************************************************)
C16_StatsReadOnly ==
  [][ last'.op = "GET_STATS" =>
        UNCHANGED << dom, appliedCount, rules, enabled, store, stack >> ]_vars

\* The query has answered on a page on which the engine has marked a node.
C16_Witness ==
  /\ last.op = "GET_STATS" /\ last.textCount + last.elementCount > 0
  /\ \E n \in Node : dom[n].processed

\* The text nodes with a match of some detector pattern that lie in no
\* processed subtree, and the unmarked elements that a detector selector selects
UnprocessedTextRuns ==
  { t \in Node : /\ dom[t].kind = "text" /\ Attached(dom, t) /\ AcceptNode(dom, t)
                 /\ \E k \in 1..Len(DetectorTextPatterns) :
                      DetectorPatternHits(DetectorTextPatterns[k], dom[t].text) }

UnprocessedMatchingElements ==
  { n \in Node \ {Body} :
      /\ IsElement(dom, n) /\ Attached(dom, n) /\ ~dom[n].processed
      /\ \E k \in 1..Len(DetectorSelectors) :
           DetectorSelectorMatches(dom[n], DetectorSelectors[k]) }

(***************************************************************************)
(* C17: the counts of the diagnostics query cover the unprocessed nodes    *)
(* only: textCount is the number of distinct text runs with a match that   *)
(* lie outside every processed subtree, each counted once however many     *)
(* patterns match it, and elementCount is the number of distinct matching  *)
(* elements that carry no processed marker.                                *)
(***************************************************************************)
C17_CountsUnprocessed ==
  last.op = "GET_STATS" =>
    /\ last.textCount = Cardinality(UnprocessedTextRuns)
    /\ last.elementCount = Cardinality(UnprocessedMatchingElements)

(***************************************************************************)
(* C18: resolving is a pure read: getMergedRules and loadRules write none  *)
(* of communityRules, userRules, disabledRuleIds and tags, and two         *)
(* resolves over an unchanged store give the same list.                    *)
(***************************************************************************)
C18_ResolvePure ==
  [][ /\ last'.op \in {"GET_RULES", "loadRules"} => store' = store
      /\ (last'.op = "GET_RULES" /\ merged.done) => merged'.rules = merged.rules ]_vars

\* GET_RULES has been answered twice over a store in which a disabled id
\* keeps a rule out of the list.
C18_Witness ==
  /\ merged.again /\ cacheVer = ruleVer
  /\ \E i \in 1..Len(store.userRules) : store.userRules[i].id \in Range(store.disabledRuleIds)
  /\ Len(merged.rules) < Len(store.userRules) + Len(store.communityRules)

AllRules == store.userRules \o store.communityRules

(***************************************************************************)
(* C19: after any sequence of saveLocalRule, saveBatchRules,               *)
(* importUserRules (merge or replace), updateUserRule and community sync,  *)
(* no two rules of userRules and communityRules together share an id.      *)
(***************************************************************************)
C19_UniqueIds ==
  \A i, j \in 1..Len(AllRules) : AllRules[i].id = AllRules[j].id => i = j

\* The tag that the deleteTag of this step was called with
DeletedTag == CHOOSE t \in last'.keys : TRUE

TagNameAllowed(name) ==
  /\ Len(name) >= 2 /\ Len(name) <= 30
  /\ \A i \in 1..Len(name) :
       \E k \in 1..Len(TagNameChars) : SubSeq(TagNameChars, k, k) = SubSeq(name, i, i)

(***************************************************************************)
(* C21: after any sequence of createTag, updateTag, toggleTag and          *)
(* deleteTag no two tags of the registry have names that are equal when    *)
(* letter case is ignored, and every name has 2 to 30 characters of the    *)
(* allowed kind; a createTag that would break this returns an error and    *)
(* leaves the registry as it is.                                           *)
(***************************************************************************)
C21_TagNames ==
  /\ \A i, j \in 1..Len(store.tags) :
       ToLowerCase(store.tags[i].name) = ToLowerCase(store.tags[j].name) => i = j
  /\ \A i \in 1..Len(store.tags) : TagNameAllowed(store.tags[i].name)

\* The rule id that the toggleRule of this step was called with, and whether
\* it is the id of a community rule and of no user rule
ToggledId == CHOOSE id \in last'.keys : TRUE
ToggledCommunity ==
  /\ \E i \in 1..Len(store.communityRules) : store.communityRules[i].id = ToggledId
  /\ \A i \in 1..Len(store.userRules) : store.userRules[i].id # ToggledId

Occurrences(seq, x) == Cardinality({ i \in 1..Len(seq) : seq[i] = x })

\* The resolved list after toggleRule(ToggledId, true) is called next
AfterEnabling == GetMergedRules(ToggleRuleStore(store', ToggledId, TRUE))

\* The statement of C22 that does not ask the rule to be enabled before the pair
C22_RoundTripAlways ==
  [][ (last'.op = "toggleRule" /\ ~last'.on /\ ToggledCommunity)
        => AfterEnabling = GetMergedRules(store) ]_vars

(***************************************************************************)
(* C22: toggleRule on the id of a community rule never changes             *)
(* communityRules: disabling adds the id to disabledRuleIds, at most once, *)
(* enabling removes it, and for a rule that the overlay did not hold,      *)
(* toggleRule(id, false) and then toggleRule(id, true) give back the       *)
(* resolved list; toggleRule on the id of a user rule changes the enabled  *)
(* field of that rule only and never the overlay.                          *)
(***************************************************************************)
C22_ToggleRule ==
  [][ last'.op = "toggleRule" =>
        /\ store'.communityRules = store.communityRules
        /\ store'.tags = store.tags
        /\ ToggledCommunity =>
             /\ store'.userRules = store.userRules
             /\ Occurrences(store'.disabledRuleIds, ToggledId) = IF last'.on THEN 0 ELSE 1
             /\ \A id \in Range(store.disabledRuleIds) \ {ToggledId} :
                  Occurrences(store'.disabledRuleIds, id)
                    = Occurrences(store.disabledRuleIds, id)
             /\ Range(store'.disabledRuleIds) \subseteq Range(store.disabledRuleIds) \cup {ToggledId}
             /\ (~last'.on /\ ToggledId \notin Range(store.disabledRuleIds))
                  => AfterEnabling = GetMergedRules(store)
        /\ ~ToggledCommunity =>
             /\ store'.disabledRuleIds = store.disabledRuleIds
             /\ Len(store'.userRules) = Len(store.userRules)
             /\ \A i \in 1..Len(store.userRules) :
                  /\ [ store'.userRules[i] EXCEPT !.enabled = TRUE ]
                       = [ store.userRules[i] EXCEPT !.enabled = TRUE ]
                  /\ store'.userRules[i].enabled =
                       IF store.userRules[i].id = ToggledId THEN last'.on
                       ELSE store.userRules[i].enabled ]_vars

\* The second community rule has been disabled after the first was enabled:
\* the overlay holds it once, and the resolved list that was asked for
\* before the toggle still shows it.
C22_Witness ==
  /\ last.op = "toggleRule" /\ last.keys = {"c2"} /\ ~last.on
  /\ store.disabledRuleIds = << "c2" >>
  /\ merged.done /\ Len(merged.rules) = 3

TopAfter == stack'[Len(stack')]

IsSuffix(a, b) == Len(a) <= Len(b) /\ a = SubSeq(b, Len(b) - Len(a) + 1, Len(b))

\* The rule that the running activation is applying
RuleInHand == Head(Top.rq)

\* This step applies the rule in hand to element el: applyRuleToElement
\* marks it, or applyRuleToTextNode writes a text run of it
AppliedTo(el) ==
  /\ stack # << >>
  /\ \/ Top.ph \in {"sel", "elems"} /\ Head(Top.wl) = el /\ dom'[el].processed
     \/ Top.ph = "texts" /\ Parent(dom, Head(Top.wl)) = el
           /\ dom'[Head(Top.wl)].text # dom[Head(Top.wl)].text

\* Rule matches element el of tree d: its selector selects el, or its
\* content pattern picks el (remove, hide) or a text run of el (replace)
Selects(d, rule, el) ==
  /\ IsElement(d, el) /\ Attached(d, el) /\ el # Body
  /\ \/ /\ rule.selector # "" /\ SelectorValid(rule.selector)
        /\ Matches(d[el], rule.selector)
     \/ /\ rule.contentPattern # "" /\ RegExpValid(rule.contentPattern)
        /\ IF rule.action \in {"remove", "hide"}
           THEN d[el].tag \notin {"script", "style", "noscript"}
                /\ ShouldApplyToElement(d, el, rule)
           ELSE \E t \in Range(NodesToProcess(d, rule)) :
                   Parent(d, t) = el /\ NewText(d, t, rule) # d[t].text

\* The first rule of the list that applies to this host, when it is a local rule
LeadingLocal(rs) ==
  { L \in Range(rs) : L.source = "user" /\ L = Head(SelectSeq(rs, AppliesToHost)) }

\* The action of rule L shows on element el of tree d
ActionShows(d, L, el) ==
  /\ d[el].processed
  /\ L.action = "hide" => d[el].hidden
  /\ L.action = "remove" => Parent(d, el) = NoNode

IndexOfRule(rs, id) == CHOOSE i \in 1..Len(rs) : rs[i].id = id

(***************************************************************************)
(* C24: an activation of applyAll takes the rules in the order of the      *)
(* resolved list and goes to the next rule only when it is through with    *)
(* the one in hand; an unprocessed element that the leading local rule and *)
(* a community rule both match when the run begins gets the local rule's   *)
(* action, and the community rule is never applied to it.                  *)
(***************************************************************************)
C24_ListOrderLocalFirst ==
  [][ /\ (stack # << >> /\ stack' # << >>) =>
           IsSuffix(TopAfter.rq, Top.rq) /\ IsSuffix(Top.rq, SelectSeq(Top.rules, AppliesToHost))
      /\ \A el \in Node :
           (AppliedTo(el) /\ RuleInHand.source = "community") =>
              \A L \in LeadingLocal(Top.rules) :
                 ~(Selects(Top.page, L, el) /\ ~Top.page[el].processed)
      /\ (last'.ran /\ hist' # hist) =>
           /\ \A i, j \in 1..Len(hist'.tried) :
                i < j => IndexOfRule(hist'.ranRules, hist'.tried[i][1])
                           <= IndexOfRule(hist'.ranRules, hist'.tried[j][1])
           /\ \A L \in LeadingLocal(hist'.ranRules), el \in Node :
                (Selects(hist'.page, L, el) /\ ~hist'.page[el].processed)
                   => ActionShows(dom', L, el) ]_vars

\* A run has returned in which the local rule hid the two banners that the
\* community rule's pattern matches too, and the community rule removed the
\* paragraph only
C24_Witness ==
  /\ last.ran /\ Len(hist.ranRules) = 2
  /\ hist.ranRules[1].source = "user" /\ hist.ranRules[2].source = "community"
  /\ \E el \in Node :
       /\ Selects(hist.page, hist.ranRules[1], el)
       /\ Selects(hist.page, hist.ranRules[2], el)
       /\ dom[el].hidden /\ Attached(dom, el)
  /\ \E el \in Node : hist.page[el].tag = "p" /\ ~Attached(dom, el)

\* The run that has returned applied, first of its list, a replace rule
\* with a content pattern and no selector
LeadingTextRule ==
  { R \in Range(hist.ranRules) :
      /\ R = Head(SelectSeq(hist.ranRules, AppliesToHost))
      /\ R.action = "replace" /\ R.contentPattern # "" /\ R.selector = "" }

(***************************************************************************)
(* C25: when a run of applyAll under a replace rule with a content pattern *)
(* has returned, every text run that matched when the run began, outside   *)
(* script, style, noscript, textarea, input and outside every processed    *)
(* subtree, holds its text with the matches substituted, also when         *)
(* several of them have the same parent element.                           *)
(***************************************************************************)
C25_EveryTextRunReplaced ==
  last.ran =>
    \A R \in LeadingTextRule :
       \A t \in Range(NodesToProcess(hist.page, R)) :
          dom[t].text = NewText(hist.page, t, R)

(***************************************************************************)
(* C26: while applyAll applies a remove or hide rule that has a content    *)
(* pattern, no text run changes its characters: only whole elements are    *)
(* detached or hidden; while it applies a replace rule with a content      *)
(* pattern and no selector, no element is detached, hidden or given new    *)
(* children: only text runs change.                                        *)
(***************************************************************************)
C26_ActionGranularity ==
  [][ (stack # << >> /\ dom' # dom) =>
        /\ (RuleInHand.action \in {"remove", "hide"} /\ RuleInHand.contentPattern # "") =>
             \A t \in Node : dom[t].kind = "text" =>
                dom'[t].kind = "text" /\ dom'[t].text = dom[t].text
        /\ (RuleInHand.action = "replace" /\ RuleInHand.contentPattern # ""
              /\ RuleInHand.selector = "") =>
             \A el \in Node : IsElement(dom, el) =>
                /\ dom'[el].kids = dom[el].kids
                /\ dom'[el].hidden = dom[el].hidden
                /\ Attached(dom', el) = Attached(dom, el) ]_vars

\* A remove rule with a content pattern has detached the paragraph whose
\* text matched, and the text run of the paragraph still reads as before
C26_Witness ==
  /\ last.ran /\ Len(hist.ranRules) = 2
  /\ hist.ranRules[2].action = "remove" /\ hist.ranRules[2].contentPattern = "ad"
  /\ \E el \in Node :
       /\ hist.page[el].tag = "p" /\ Attached(hist.page, el)
       /\ ~Attached(dom, el) /\ TextContent(dom, el) = "ad"

\* The run that has returned applied, first of its list, a remove or hide
\* rule with a selector that querySelectorAll accepts
LeadingSelectorRule ==
  { R \in Range(hist.ranRules) :
      /\ R = Head(SelectSeq(hist.ranRules, AppliesToHost))
      /\ R.action \in {"remove", "hide"}
      /\ R.selector # "" /\ SelectorValid(R.selector) }

\* An element with child elements and a text of a hundred characters or
\* more that the content pattern of the rule does not match
LargeContainer(d, el, R) ==
  /\ IsElement(d, el)
  /\ Len(Children(d, el)) > 0
  /\ Len(Trim(TextContent(d, el))) >= ContainerTextLimit
  /\ R.contentPattern # "" /\ ~RegExpTest(R.contentPattern, TextContent(d, el))

(***************************************************************************)
(* C27: when a run of applyAll under a remove or hide rule with a valid    *)
(* selector has returned, every element that the selector matched          *)
(* unprocessed when the run began is marked and detached or hidden,        *)
(* whatever the length of its text, its children and the content pattern.  *)
(***************************************************************************)
C27_SelectorBypassesHeuristic ==
  last.ran =>
    \A R \in LeadingSelectorRule :
       \A el \in Range(QuerySelectorAll(hist.page, R.selector)) :
          ~hist.page[el].processed => ActionShows(dom, R, el)

\* A selector rule has removed or hidden a large container that its
\* content pattern does not match
C27_Witness ==
  /\ last.ran
  /\ \E R \in LeadingSelectorRule, el \in Node :
       /\ LargeContainer(hist.page, el, R)
       /\ Matches(hist.page[el], R.selector) /\ ~hist.page[el].processed
       /\ dom[el].processed /\ dom[el].mutated

\* The run that has returned applied, first of its list, a replace rule
\* with a selector that querySelectorAll accepts
LeadingReplaceRule ==
  { R \in Range(hist.ranRules) :
      /\ R = Head(SelectSeq(hist.ranRules, AppliesToHost))
      /\ R.action = "replace"
      /\ R.selector # "" /\ SelectorValid(R.selector) }

\* The children of el are what the parser makes of html
ContentIs(d, el, html) ==
  /\ Len(d[el].kids) = (IF NodesNeeded(html) = 0 THEN 0 ELSE 1)
  /\ TextContent(d, el) = ParseHTML(html).text

(***************************************************************************)
(* C28: when a run of applyAll under a replace rule with a selector has    *)
(* returned, every element that the rule was applied to (it is marked, and *)
(* was matched unprocessed when the run began) has the replacement of the  *)
(* rule as its content, the empty replacement included.                    *)
(***************************************************************************)
C28_ContentIsReplacement ==
  last.ran =>
    \A R \in LeadingReplaceRule :
       \A el \in Range(QuerySelectorAll(hist.page, R.selector)) :
          (~hist.page[el].processed /\ dom[el].processed)
             => ContentIs(dom, el, R.replacement)

\* The mode that the importUserRules of this step was called with
ImportMode == CHOOSE mode \in last'.keys : TRUE

\* Stored rule r is what the import makes of rule object f of the file: the
\* fields of f, f's id or a generated one, source 'user', and enabled unless
\* the file says false
NormalizedFrom(r, f) ==
  /\ r = [ f.rule EXCEPT !.id = r.id, !.source = "user", !.enabled = (f.enabled # "false") ]
  /\ IF f.rule.id # "" THEN r.id = f.rule.id ELSE r.id \in Range(GeneratedIds)

(***************************************************************************)
(* C29: importUserRules with a value that is not an array answers with an  *)
(* error and leaves the store as it is; in merge mode the stored rules     *)
(* stay as and where they are and a rule of the file is added only if no   *)
(* stored rule had its id; in replace mode userRules becomes the           *)
(* normalised rules of the file, one for one; a stored imported rule has   *)
(* source 'user' and is disabled only if the file said enabled: false.     *)
(***************************************************************************)
C29_ImportUserRules ==
  [][ last'.op = "importUserRules" =>
        \E file \in { last'.arg.items }, old \in { store.userRules }, new \in { store'.userRules } :
          /\ [ store' EXCEPT !.userRules = old ] = store
          /\ ~last'.arg.isArray => ~last'.ok /\ new = old
          /\ (last'.arg.isArray /\ ImportMode = "merge") =>
               /\ last'.ok
               /\ Len(new) >= Len(old) /\ SubSeq(new, 1, Len(old)) = old
               /\ \A k \in (Len(old) + 1)..Len(new) :
                    /\ \A j \in 1..Len(old) : old[j].id # new[k].id
                    /\ \E i \in 1..Len(file) : NormalizedFrom(new[k], file[i])
               /\ \A i \in 1..Len(file) :
                    (file[i].rule.id # "" /\ \A j \in 1..Len(old) : old[j].id # file[i].rule.id)
                       => \E k \in (Len(old) + 1)..Len(new) : NormalizedFrom(new[k], file[i])
          /\ (last'.arg.isArray /\ ImportMode = "replace") =>
               /\ last'.ok
               /\ Len(new) = Len(file)
               /\ \A i \in 1..Len(file) : NormalizedFrom(new[i], file[i]) ]_vars

\* A merge has kept the stored rule u1, skipped the rule of the file with
\* that id and added the other rule of the file, switched off as the file
\* said
C29_Witness ==
  /\ last.op = "importUserRules" /\ last.keys = {"merge"} /\ last.ok
  /\ Len(last.arg.items) = 2
  /\ \E i \in 1..2 : last.arg.items[i].rule.id = "u1"
  /\ Len(store.userRules) = 2
  /\ store.userRules[1].id = "u1" /\ store.userRules[1].selector = "#old"
  /\ store.userRules[2].selector = "#new" /\ ~store.userRules[2].enabled

\* The statement of C30 that asks every sync that answers with an error to
\* write syncError
C30_EveryFailureRecorded ==
  [][ (last'.op = "syncCommunityRules" /\ ~last'.ok) =>
        /\ store'.communityRules = store.communityRules
        /\ "syncError" \in last'.keys /\ store'.syncError # "" ]_vars

(***************************************************************************)
(* C30: a sync that succeeds stores as communityRules the rules it         *)
(* fetched and nothing else, each with source 'community' and enabled      *)
(* true; a sync that fails after it began leaves communityRules as they    *)
(* are and writes syncError; a sync that the rate limit refuses answers    *)
(* with an error and writes nothing.  No sync changes userRules, tags or   *)
(* disabledRuleIds.                                                        *)
(***************************************************************************)
C30_SyncReplacesWholesale ==
  [][ last'.op = "syncCommunityRules" =>
        /\ store'.userRules = store.userRules
        /\ store'.tags = store.tags
        /\ store'.disabledRuleIds = store.disabledRuleIds
        /\ last'.ok =>
             /\ Len(store'.communityRules) = Len(last'.arg)
             /\ \A i \in 1..Len(last'.arg) :
                  /\ store'.communityRules[i].source = "community"
                  /\ store'.communityRules[i].enabled
                  /\ [ store'.communityRules[i] EXCEPT !.source = "", !.enabled = TRUE ]
                       = [ last'.arg[i] EXCEPT !.source = "", !.enabled = TRUE ]
        /\ ~last'.ok =>
             /\ store'.communityRules = store.communityRules
             /\ IF last'.keys = {} THEN store' = store
                ELSE "syncError" \in last'.keys /\ store'.syncError # "" ]_vars

\* A sync has replaced the stored community rule by the one rule file that
\* decoded, out of two that the listing named
C30_Witness ==
  /\ last.op = "syncCommunityRules" /\ last.ok
  /\ Len(last.arg) = 1 /\ ~last.arg[1].enabled
  /\ Len(store.communityRules) = 1
  /\ store.communityRules[1].id = "c1" /\ store.communityRules[1].enabled
  /\ store.syncError = ""

\* Sync call i has started to fetch
FetchStarted(i) == calls[i].pc \in {"fetching", "done", "failed"}

(***************************************************************************)
(* C31: a sync that reads a lastSyncAttempt less than five minutes old     *)
(* fetches nothing and answers with the rate-limit error, and so no two    *)
(* syncs, by alarm or by message, start to fetch within five minutes of    *)
(* each other.                                                             *)
(***************************************************************************)
C31_OneFetchPerWindow ==
  \A i, j \in 1..Len(calls) :
     (i < j /\ FetchStarted(i) /\ FetchStarted(j)) =>
        \/ calls[j].now - calls[i].now >= RateLimitMinutes
        \/ calls[i].now - calls[j].now >= RateLimitMinutes

(***************************************************************************)
(* C32: when migrateStorage has run on a store with a legacy rules list    *)
(* and no communityRules, communityRules holds every legacy rule with      *)
(* source 'community' and enabled true and the legacy key is gone; a       *)
(* communityRules or userRules that was there is as it was; and a second   *)
(* run changes nothing.                                                    *)
(***************************************************************************)
C32_MigrationPreserves ==
  [][ last'.op = "migrateStorage" =>
        /\ (store.hasRules /\ ~store.hasCommunityRules) =>
             /\ Len(store'.communityRules) = Len(store.rules)
             /\ \A i \in 1..Len(store.rules) :
                  store'.communityRules[i]
                    = [ store.rules[i] EXCEPT !.source = "community", !.enabled = TRUE ]
             /\ ~store'.hasRules
        /\ store.hasCommunityRules => store'.communityRules = store.communityRules
        /\ store.hasUserRules => store'.userRules = store.userRules
        /\ last'.on => store' = store ]_vars

\* The part of C32 about the store that has nothing to migrate, and about
\* the second run
C32_NothingToMigrate ==
  [][ last'.op = "migrateStorage" =>
        /\ store.hasCommunityRules =>
             /\ store'.communityRules = store.communityRules
             /\ store'.rules = store.rules /\ store'.hasRules = store.hasRules
             /\ store.hasUserRules => store'.userRules = store.userRules
        /\ last'.on => store' = store ]_vars

Returned(i) == calls[i].pc = "done" /\ calls[i].error = ""

\* C33: once every background operation in flight has returned, the store
\* shows what each successful one did: the rule of a saveLocalRule is among
\* the user rules, the rule of a deleteUserRule is not, and the tag of a
\* deleteTag is not in the registry.
C33_NoLostUpdate ==
  (\A i \in 1..Len(calls) : calls[i].pc = "done") =>
     \A i \in 1..Len(calls) :
        Returned(i) =>
           /\ calls[i].op = "saveLocalRule" =>
                 \E r \in Range(store.userRules) : r.id = calls[i].generated
           /\ calls[i].op = "deleteUserRule" =>
                 ~\E r \in Range(store.userRules) : r.id = calls[i].ruleId
           /\ calls[i].op = "deleteTag" =>
                 ~\E t \in Range(store.tags) : t.id = calls[i].tagId

\* C36: every tag id that a user rule carries is the id of a tag of the registry.
C36_TagReferentialIntegrity ==
  \A r \in Range(store.userRules) :
     r.hasTags => \A k \in 1..Len(r.tags) : \E t \in Range(store.tags) : t.id = r.tags[k]

\* C34: when a loadRules call that a change notification started has just
\* completed and neither another call nor a notification is pending, the
\* cached rule list is the resolution of the store as it is and the engine's
\* enabled flag is the stored one.
C34_CacheConverges ==
  (last.op = "loadRules" /\ last.needVer > 0 /\ loads = << >> /\ notifs = << >>)
    => (rules = LoadRules(store).rules /\ enabled = store.enabled)

\* The elements that get the processed marker in a step
NewlyMarked == { n \in Node : dom'[n].processed /\ ~dom[n].processed }

\* C35: an applyAll call made while enabled sets the applied-count to 0 and
\* marks nothing itself; every other step adds to the applied-count the
\* number of elements it marks, which is at most one.  The count at the end
\* of a run is therefore the number of elements marked during the run.
C35_CountTracksMarks ==
  [][ IF last'.called /\ last'.enabledAtCall
      THEN appliedCount' = 0 /\ NewlyMarked = {}
      ELSE /\ Cardinality(NewlyMarked) <= 1
           /\ appliedCount' = appliedCount + Cardinality(NewlyMarked) ]_vars

\* A run that began on a page marked by a run before it has marked an
\* element and returned
C35_Witness ==
  /\ last.ran /\ last.applied >= 1 /\ appliedCount = last.applied
  /\ \E n \in Node : hist.page[n].processed

\* C37: the list that GET_RULES returns is the list that the content script
\* caches, and the count the popup shows is the length of that list.
C37_ResolversAgree ==
  /\ (merged.done /\ cacheVer = ruleVer) => merged.rules = rules
  /\ last.op = "popup" => last.arg[1] = Len(GetMergedRules(store))

\* C38: a rule leaves pendingRules only through removeRule with its tempId or
\* through the success of a SAVE_BATCH_RULES request that held it, and a
\* failed save leaves pendingRules as it was.
C38_NoPendingRuleLost ==
  [][ /\ \A r \in Range(panel.pendingRules) :
           \/ r \in Range(panel'.pendingRules)
           \/ last'.op = "removeRule" /\ last'.keys = { r.tempId }
           \/ last'.op = "saveAll" /\ last'.called /\ last'.ok
                /\ r \in Range(Head(calls).sent)
      /\ (last'.op = "saveAll" /\ last'.called /\ ~last'.ok)
            => panel'.pendingRules = panel.pendingRules ]_vars

\* The rule id or the tag id of the handler's message is not in the store
AddressesMissing ==
  \/ /\ last'.op \in {"updateUserRule", "addTagToRule", "removeTagFromRule"}
     /\ ~\E r \in Range(store.userRules) : r.id = last'.arg[1]
  \/ /\ last'.op \in {"updateTag", "toggleTag"}
     /\ ~\E t \in Range(store.tags) : t.id = last'.arg[2]

\* C39: updateUserRule, addTagToRule and removeTagFromRule with a rule id
\* that no user rule has, and updateTag and toggleTag with a tag id that no
\* tag of the registry has, return success false with a 'not found' error
\* and leave the store as it is; saveBatchRules with no rules or with
\* something that is not an array fails and leaves the store as it is.
C39_MissingFailsWithoutWrite ==
  [][ /\ AddressesMissing =>
           /\ ~last'.ok /\ last'.arg[3] \in {"Rule not found", "Tag not found"}
           /\ store' = store
      /\ (last'.op = "saveBatchRules"
            /\ (last'.arg[1] = "other" \/ last'.arg[2] = "empty"))
           => (~last'.ok /\ last'.arg[3] = "No rules to save" /\ store' = store) ]_vars

\* updateUserRule has been sent the id of no rule, after a rule was saved
C39_Witness ==
  /\ last.op = "updateUserRule" /\ last.arg[1] = "u7" /\ ~last.ok
  /\ Len(store.userRules) = 2

====
